---- MODULE Spec2Model ----
(***************************************************************************)
(* srbTranslit: the background script's rule store, permission gatekeeper, *)
(* notification throttle, auto-apply controller and command dispatcher     *)
(* (src/background.js), modelled as asynchronous tasks that interleave at  *)
(* their awaits.                                                           *)
(*                                                                         *)
(* Strings are sequences of one-character strings, so that split('.'),     *)
(* endsWith and the template literals are computed, not assumed.  The      *)
(* empty sequence stands for both null and '' (the code only ever tests    *)
(* such values with `!x`).                                                 *)
(***************************************************************************)
EXTENDS Integers, Sequences, FiniteSets, TLC

(* ------------------------------------------------------------------ *)
(* Strings                                                            *)
(* ------------------------------------------------------------------ *)

Empty == << >>

DOT == "."

s_rs == <<"r", "s">>

s_gov == <<"g", "o", "v">>

\* the hosts the modelled browser visits
h_p == <<"p">> \o <<DOT>> \o s_rs

h_n_p == <<"n">> \o <<DOT>> \o h_p

h_gov == s_gov \o <<DOT>> \o s_rs

h_a_gov == <<"a">> \o <<DOT>> \o h_gov

\* two more for the rule store on its own: a host that ends with 'p.rs' but
\* not with '.p.rs', and a host two labels below its domain
h_np == <<"n", "p">> \o <<DOT>> \o s_rs

h_m_n_p == <<"m">> \o <<DOT>> \o h_n_p

Hosts == {h_p, h_n_p, h_gov, h_a_gov, h_np, h_m_n_p}

\* A behaviour follows the browser on one site.  On "p.rs" the platform is
\* followed in full (grants come and go, the clock advances,
\* permissions.contains may throw); on "gov.rs", whose hosts exercise the
\* three-label domains, only the rule store is.  The rule store, the
\* notification throttle and two mutations in flight at once are followed
\* on their own, on four hosts of two registrable domains.
Sites == {"p.rs", "gov.rs"}

SiteHosts(s) ==
  IF s = "p.rs" THEN {h_p, h_n_p}
  ELSE IF s = "flight" THEN {h_p, h_n_p, h_m_n_p}
  ELSE IF s = "gov.rs" THEN {h_gov, h_a_gov}
  ELSE {h_p, h_n_p, h_np, h_m_n_p}

PlatformFollowed(s) == s = "p.rs"

RECURSIVE split(_, _)
\* String.prototype.split(sep) for a one-character separator: the list of
\* the pieces between separators ('' gives one empty piece).
split(s, sep) ==
  IF \A i \in 1..Len(s) : s[i] # sep
  THEN <<s>>
  ELSE LET i == CHOOSE j \in 1..Len(s) :
                  s[j] = sep /\ \A k \in 1..(j - 1) : s[k] # sep
       IN <<SubSeq(s, 1, i - 1)>> \o split(SubSeq(s, i + 1, Len(s)), sep)

RECURSIVE join(_, _)
\* Array.prototype.join(sep)
join(parts, sep) ==
  IF Len(parts) = 0 THEN Empty
  ELSE IF Len(parts) = 1 THEN parts[1]
  ELSE parts[1] \o <<sep>> \o join(Tail(parts), sep)

\* Array.prototype.slice(-n)
sliceLast(parts, n) ==
  IF Len(parts) <= n THEN parts ELSE SubSeq(parts, Len(parts) - n + 1, Len(parts))

\* the elements of a list
elements(a) == {a[i] : i \in 1..Len(a)}

\* String.prototype.endsWith
endsWith(s, suffix) ==
  /\ Len(suffix) <= Len(s)
  /\ SubSeq(s, Len(s) - Len(suffix) + 1, Len(s)) = suffix

(* ------------------------------------------------------------------ *)
(* URLs and domains                                                   *)
(* ------------------------------------------------------------------ *)

\* A URL is what new URL(url) makes of it: parseable or not, and its
\* hostname.  BadUrl is a string new URL() throws on ('' is one).
BadUrl == [parses |-> FALSE, hostname |-> Empty]

UrlOf(h) == [parses |-> TRUE, hostname |-> h]

Urls(s) == {UrlOf(h) : h \in SiteHosts(s)} \cup {BadUrl}

getHostname(url) == IF url.parses THEN url.hostname ELSE Empty

knownSecondLevel ==
  { <<"c", "o">>, <<"c", "o", "m">>, <<"n", "e", "t">>, <<"o", "r", "g">>,
    s_gov, <<"e", "d", "u">>, <<"a", "c">> }

\* the function without its list of known second-level labels
registrableDomain_lastTwo(hostname) ==
  IF hostname = Empty THEN Empty
  ELSE LET parts == split(hostname, DOT)
       IN IF Len(parts) <= 2 THEN hostname
          ELSE join(sliceLast(parts, 2), DOT)

registrableDomain(hostname) ==
  IF hostname = Empty THEN Empty
  ELSE LET parts == split(hostname, DOT)
           tld == parts[Len(parts)]
           sld == parts[Len(parts) - 1]
       IN IF Len(parts) <= 2 THEN hostname
          ELSE IF Len(tld) = 2 /\ sld \in knownSecondLevel
               THEN join(sliceLast(parts, 3), DOT)
               ELSE join(sliceLast(parts, 2), DOT)

Bases(s) == {registrableDomain(h) : h \in SiteHosts(s)}

exactPattern(base) == <<"*", ":", "/", "/">> \o base \o <<"/", "*">>

wildPattern(base) == <<"*", ":", "/", "/", "*", DOT>> \o base \o <<"/", "*">>

originPatternsForBase(base) ==
  IF base = Empty THEN << >> ELSE <<exactPattern(base), wildPattern(base)>>

Patterns(s) == UNION {{exactPattern(b), wildPattern(b)} : b \in Bases(s)}

(* ------------------------------------------------------------------ *)
(* Rule maps: a JS object as the list of its entries in insertion     *)
(* order (the order Object.keys enumerates)                           *)
(* ------------------------------------------------------------------ *)

LAT_TO_CYR == "lat_to_cyr"

CYR_TO_LAT == "cyr_to_lat"

Directions == {LAT_TO_CYR, CYR_TO_LAT}

mapKeys(map) == {map[i].key : i \in 1..Len(map)}

mapHas(map, k) == k \in mapKeys(map)

mapIndex(map, k) == CHOOSE i \in 1..Len(map) : map[i].key = k

\* map[k]?.direction, "" when k is no key of map
mapGet(map, k) == IF mapHas(map, k) THEN map[mapIndex(map, k)].direction ELSE ""

\* map[k] = {direction: d}: an existing key keeps its place, a new one goes last
mapSet(map, k, d) ==
  IF mapHas(map, k)
  THEN [map EXCEPT ![mapIndex(map, k)] = [key |-> k, direction |-> d]]
  ELSE Append(map, [key |-> k, direction |-> d])

\* delete map[k]
mapDelete(map, k) ==
  IF mapHas(map, k)
  THEN LET i == mapIndex(map, k)
       IN SubSeq(map, 1, i - 1) \o SubSeq(map, i + 1, Len(map))
  ELSE map

\* the persisted value of 'enabledDomains'
StoredUndefined == [form |-> "undefined", arr |-> << >>, map |-> << >>]

StoredArray(a) == [form |-> "array", arr |-> a, map |-> << >>]

StoredMap(m) == [form |-> "map", arr |-> << >>, map |-> m]

RECURSIVE legacyToMap(_, _)
\* for (const d of enabledDomains) map[d] = {direction: 'lat_to_cyr'}
legacyToMap(arr, map) ==
  IF Len(arr) = 0 THEN map
  ELSE legacyToMap(Tail(arr), mapSet(map, Head(arr), LAT_TO_CYR))

\* the read that takes a legacy list for an absent value
getEnabledMap_noLegacy(stored) ==
  IF stored.form = "map" THEN stored.map ELSE << >>

\* getEnabledMap applied to the value storage.local.get resolved with
getEnabledMap(stored) ==
  IF stored.form = "array" THEN legacyToMap(stored.arr, << >>)
  ELSE IF stored.form = "map" THEN stored.map
  ELSE << >>

NoMatch == [found |-> FALSE, key |-> Empty, direction |-> ""]

\* the test without the dot
keyMatches_noDot(host, key) == host = key \/ endsWith(host, key)

keyMatches(host, key) == host = key \/ endsWith(host, <<DOT>> \o key)

\* a lookup that prefers the longest matching key
findInMap_longest(map, host) ==
  IF \E i \in 1..Len(map) : keyMatches(host, map[i].key)
  THEN LET i == CHOOSE j \in 1..Len(map) :
                  /\ keyMatches(host, map[j].key)
                  /\ \A k \in 1..Len(map) :
                       keyMatches(host, map[k].key)
                         => Len(map[k].key) <= Len(map[j].key)
       IN [found |-> TRUE, key |-> map[i].key, direction |-> map[i].direction]
  ELSE NoMatch

\* the loop of findRuleForUrl over Object.keys(map)
findInMap(map, host) ==
  IF \E i \in 1..Len(map) : keyMatches(host, map[i].key)
  THEN LET i == CHOOSE j \in 1..Len(map) :
                  /\ keyMatches(host, map[j].key)
                  /\ \A k \in 1..(j - 1) : ~keyMatches(host, map[k].key)
       IN [found |-> TRUE, key |-> map[i].key, direction |-> map[i].direction]
  ELSE NoMatch

(* ------------------------------------------------------------------ *)
(* Permissions                                                        *)
(* ------------------------------------------------------------------ *)

\* browser.permissions.contains({origins: [o]}): a promise that resolves to
\* whether the pattern is granted
permissionsContains(granted, o) == [type |-> "promise", value |-> o \in granted]

\* JS truthiness: a boolean is its value, an object (a promise) is truthy
truthy(v) == IF v.type = "boolean" THEN v.value ELSE TRUE

\* hasOrigins: `threw` says that permissions.contains threw synchronously,
\* which the catch turns into false
hasOrigins(origins, granted, threw) ==
  IF threw THEN FALSE
  ELSE \E i \in 1..Len(origins) : truthy(permissionsContains(granted, origins[i]))

\* the task as it takes a step during which permissions.contains throws or not
During(r, throws) == [r EXCEPT !.permissionsThrow = throws]

\* whether the platform has granted one of the two patterns of base
accessGranted(granted, base) ==
  base # Empty /\ (exactPattern(base) \in granted \/ wildPattern(base) \in granted)

(* ------------------------------------------------------------------ *)
(* Throttle map: a function from its keys to timestamps               *)
(* ------------------------------------------------------------------ *)

EmptyThrottle == [b \in {} |-> 0]

\* notifiedMissingPermission[base] || 0
throttleGet(nmap, base) == IF base \in DOMAIN nmap THEN nmap[base] ELSE 0

throttleSet(nmap, base, ts) ==
  [b \in (DOMAIN nmap) \cup {base} |-> IF b = base THEN ts ELSE nmap[b]]

\* a delete that removes nothing
throttleDelete_keeps(nmap, base) == nmap

throttleDelete(nmap, base) == [b \in (DOMAIN nmap) \ {base} |-> nmap[b]]

SIX_HOURS == 21600000

(* ------------------------------------------------------------------ *)
(* State                                                              *)
(* ------------------------------------------------------------------ *)

VARIABLES
  site,             \* the site this behaviour follows
  enabledDomains,   \* storage.local 'enabledDomains'
  notified,         \* storage.local 'notifiedMissingPermission'
  grants,           \* the platform's granted origin patterns
  now,              \* Date.now()
  tasks,            \* the handler invocations in flight or finished
  pure,             \* a call of a pure function on its own: argument, result
  page              \* a document the content scripts run in

vars == <<site, enabledDomains, notified, grants, now, tasks, pure, page>>

\* no document is being followed
NoPage == [elements |-> << >>, runs |-> << >>, before |-> << >>]

\* no pure function is being called on its own
NoCall == [fn |-> "", arg |-> Empty, result |-> Empty, returned |-> FALSE]

\* whether permissions.contains throws during a step
PermissionFaults ==
  IF PlatformFollowed(site) \/ site = "throttle" THEN BOOLEAN ELSE {FALSE}

\* the asynchronous handler invocations the model follows at a time
MaxTasks == 2

TaskIds == 1..MaxTasks

TabIds == {1}

\* Date.now() at start-up, far above the throttle window as any real clock is
T0 == 100000000

\* the clock advances in steps of one throttle window
TickStep == SIX_HOURS

\* the number of clock steps followed
MaxTicks == 2

\* the longest legacy list start-up may find in storage
MaxLegacy == 1

NoResponse == [ok |-> "none", error |-> ""]

\* A task: one invocation of a listener.  pc names the await the task is
\* suspended at (or the continuation it resumes), stack the callers'
\* continuations with the label their try block catches at ("" for none).
IdleTask ==
  [ kind |-> "idle", pc |-> "idle", stack |-> << >>,
    \* inputs
    url |-> BadUrl, tabId |-> 0, hasTab |-> FALSE, frameId |-> 0,
    status |-> "", urlChanged |-> FALSE, item |-> "", msgDirection |-> "",
    run |-> FALSE, canPrompt |-> FALSE,
    \* the platform: permissions.contains throws synchronously during the
    \* step being taken; storage operations of the invocation may reject
    permissionsThrow |-> FALSE, storageFaulty |-> FALSE,
    \* locals
    match |-> NoMatch, map |-> << >>, nmap |-> EmptyThrottle,
    flag |-> FALSE, dir |-> "", callAccess |-> FALSE, last |-> 0,
    \* what the invocation did
    injected |-> << >>, notices |-> << >>, shoulds |-> << >>, requests |-> 0,
    outcome |-> "", checked |-> FALSE, missing |-> FALSE, permThrew |-> FALSE,
    storageFailed |-> FALSE,
    injectFailed |-> FALSE, response |-> NoResponse, rejected |-> FALSE,
    \* the shared state when the invocation started
    pre |-> [enabledDomains |-> StoredUndefined, notified |-> EmptyThrottle,
             grants |-> {}] ]

Running(r) == r.pc \notin {"idle", "done"}

Done(r) == r.pc = "done"

Host(r) == getHostname(r.url)

\* the hostname itself taken as the key
Base_hostname(r) == Host(r)

Base(r) == registrableDomain(Host(r))

(* ---- control ---- *)

Frame(ret, catch) == [ret |-> ret, catch |-> catch]

Goto(r, lbl) == [r EXCEPT !.pc = lbl]

\* suspend at `lbl` inside a callee; the caller resumes at k.ret
Call(r, lbl, k) == [r EXCEPT !.pc = lbl, !.stack = <<k>> \o @]

\* the callee never suspended: the caller still resumes at its own await
Resume(r, k) == [r EXCEPT !.pc = k.ret]

\* return from the callee suspended on top of the stack
Return(r) ==
  IF Len(r.stack) = 0 THEN [r EXCEPT !.pc = "done"]
  ELSE [r EXCEPT !.pc = Head(r.stack).ret, !.stack = Tail(r.stack)]

RECURSIVE Throw(_)
\* an exception leaves the callee on top of the stack: unwind to the nearest
\* caller that awaits inside a try; an uncaught one rejects the listener
Throw(r) ==
  IF Len(r.stack) = 0 THEN [r EXCEPT !.pc = "done", !.rejected = TRUE]
  ELSE IF Head(r.stack).catch # ""
       THEN [r EXCEPT !.pc = Head(r.stack).catch, !.stack = Tail(r.stack)]
       ELSE Throw([r EXCEPT !.stack = Tail(r.stack)])

Push(r, k) == [r EXCEPT !.stack = <<k>> \o @]

\* the task record becomes r2 and nothing else changes
Only(t, r2) ==
  /\ tasks' = [tasks EXCEPT ![t] = [r2 EXCEPT !.permissionsThrow = FALSE]]
  /\ UNCHANGED <<site, pure, page, enabledDomains, notified, grants, now>>

StorageFailed(r) == [r EXCEPT !.storageFailed = TRUE]

\* whether a storage.local call of the invocation rejects
StorageOutcomes(r) == IF r.storageFaulty THEN BOOLEAN ELSE {FALSE}

\* hasOrigins(originPatternsForBase(base)) as the invocation sees it
HasPerm(r) == hasOrigins(originPatternsForBase(Base(r)), grants, r.permissionsThrow)

\* the record after that call: permissions.contains was called unless the
\* list is empty, and `missing` keeps that some call answered false
Checked(r) ==
  [r EXCEPT !.checked = @ \/ (Base(r) # Empty),
            !.missing = @ \/ ~HasPerm(r),
            !.permThrew = @ \/ (r.permissionsThrow /\ Base(r) # Empty)]

(* ------------------------------------------------------------------ *)
(* execute(tab, direction)                                            *)
(* ------------------------------------------------------------------ *)

\* the two content scripts taken for each other
scriptFor_swapped(direction) ==
  IF direction = CYR_TO_LAT THEN "srbtranslitToCyr.js" ELSE "srbtranslit.js"

scriptFor(direction) ==
  IF direction = CYR_TO_LAT THEN "srbtranslit.js" ELSE "srbtranslitToCyr.js"

Call_execute(r, direction, k) == Call([r EXCEPT !.dir = direction], "execute", k)

\* execute without its catch: a rejection reaches the caller
execute_propagates(t) ==
  LET r == tasks[t] IN
  /\ r.pc = "execute"
  /\ \E rejects \in BOOLEAN :
       Only(t, IF ~r.hasTab THEN Return(r)
               ELSE IF rejects THEN Throw([r EXCEPT !.injectFailed = TRUE])
               ELSE Return([r EXCEPT !.injected =
                      Append(@, [tabId |-> r.tabId, file |-> scriptFor(r.dir)])]))

\* scripting.executeScript resolves or rejects; a rejection (and a missing
\* tab) is caught and logged
execute(t) ==
  LET r == tasks[t] IN
  /\ r.pc = "execute"
  /\ \E rejects \in BOOLEAN :
       Only(t, IF ~r.hasTab THEN Return(r)
               ELSE IF rejects THEN Return([r EXCEPT !.injectFailed = TRUE])
               ELSE Return([r EXCEPT !.injected =
                      Append(@, [tabId |-> r.tabId, file |-> scriptFor(r.dir)])]))

(* ------------------------------------------------------------------ *)
(* findRuleForUrl(url)                                                *)
(* ------------------------------------------------------------------ *)

Call_findRuleForUrl(r, k) ==
  IF Host(r) = Empty THEN Resume([r EXCEPT !.match = NoMatch], k)
  ELSE Call(r, "findRuleForUrl_get", k)

\* await getEnabledMap(), then the loop over the keys
findRuleForUrl_get(t) ==
  LET r == tasks[t] IN
  /\ r.pc = "findRuleForUrl_get"
  /\ \E fails \in StorageOutcomes(r) :
       Only(t, IF fails THEN Throw(StorageFailed(r))
               ELSE Return([r EXCEPT !.match =
                      findInMap(getEnabledMap(enabledDomains), Host(r))]))

(* ------------------------------------------------------------------ *)
(* migrateRuleKeyIfNeeded(url)                                        *)
(* ------------------------------------------------------------------ *)

Call_migrateRuleKeyIfNeeded(r, k) ==
  IF Host(r) = Empty \/ Base(r) = Empty
  THEN Resume([r EXCEPT !.match = NoMatch], k)
  ELSE Call_findRuleForUrl(Push(r, k), Frame("migrate_found", ""))

\* the copy without the delete
migratedMap_noDelete(map, match, desired) ==
  mapSet(map, desired, match.direction)

\* the rule map after the key of `match` is replaced by `desired`
migratedMap(map, match, desired) ==
  mapDelete(mapSet(map, desired, match.direction), match.key)

\* after `const match = await findRuleForUrl(url)`
migrate_found(t) ==
  LET r == tasks[t] IN
  /\ r.pc = "migrate_found"
  /\ Only(t, IF ~r.match.found THEN Return(r)
             ELSE IF r.match.key = Base(r) THEN Return(r)
             ELSE Goto(r, "migrate_get"))

\* const map = await getEnabledMap(); map[desired] = ...; delete map[match.key]
migrate_get(t) ==
  LET r == tasks[t] IN
  /\ r.pc = "migrate_get"
  /\ \E fails \in StorageOutcomes(r) :
       Only(t, IF fails THEN Throw(StorageFailed(r))
               ELSE Goto([r EXCEPT !.map =
                      migratedMap(getEnabledMap(enabledDomains), r.match, Base(r))],
                    "migrate_set"))

\* await setEnabledMap(map); return {key: desired, rule: match.rule}
migrate_set(t) ==
  LET r == tasks[t] IN
  /\ r.pc = "migrate_set"
  /\ \E fails \in StorageOutcomes(r) :
       IF fails
       THEN Only(t, Throw(StorageFailed([r EXCEPT !.map = << >>])))
       ELSE /\ enabledDomains' = StoredMap(r.map)
            /\ tasks' = [tasks EXCEPT ![t] =
                 Return([r EXCEPT !.map = << >>,
                                  !.match = [found |-> TRUE, key |-> Base(r),
                                             direction |-> r.match.direction]])]
            /\ UNCHANGED <<site, pure, page, notified, grants, now>>

(* ------------------------------------------------------------------ *)
(* upsertRuleForTab(tab, desiredDirection) and removeRuleForTab(tab)  *)
(* (no caller passes requirePermission, so it is its default, false)  *)
(* ------------------------------------------------------------------ *)

Call_upsertRuleForTab(r, direction, k) ==
  IF ~r.hasTab \/ Base(r) = Empty THEN Resume(r, k)
  ELSE Call([r EXCEPT !.dir = direction], "upsert_get", k)

\* desiredDirection || (map[base]?.direction || 'lat_to_cyr')
upsertDirection(map, base, desired) ==
  IF desired # "" THEN desired
  ELSE IF mapGet(map, base) # "" THEN mapGet(map, base)
  ELSE LAT_TO_CYR

upsertedMap(map, base, desired) ==
  mapSet(map, base, upsertDirection(map, base, desired))

upsert_get(t) ==
  LET r == tasks[t] IN
  /\ r.pc = "upsert_get"
  /\ \E fails \in StorageOutcomes(r) :
       Only(t, IF fails THEN Throw(StorageFailed(r))
               ELSE Goto([r EXCEPT !.map =
                      upsertedMap(getEnabledMap(enabledDomains), Base(r), r.dir)],
                    "upsert_set"))

\* a write that reads again and applies the change to what is stored now
upsert_set_merging(t) ==
  LET r == tasks[t] IN
  /\ r.pc = "upsert_set"
  /\ enabledDomains' =
       StoredMap(upsertedMap(getEnabledMap(enabledDomains), Base(r), r.dir))
  /\ tasks' = [tasks EXCEPT ![t] = Return([r EXCEPT !.map = << >>])]
  /\ UNCHANGED <<site, pure, page, notified, grants, now>>

upsert_set(t) ==
  LET r == tasks[t] IN
  /\ r.pc = "upsert_set"
  /\ \E fails \in StorageOutcomes(r) :
       IF fails
       THEN Only(t, Throw(StorageFailed([r EXCEPT !.map = << >>])))
       ELSE /\ enabledDomains' = StoredMap(r.map)
            /\ tasks' = [tasks EXCEPT ![t] = Return([r EXCEPT !.map = << >>])]
            /\ UNCHANGED <<site, pure, page, notified, grants, now>>

Call_removeRuleForTab(r, k) ==
  IF ~r.hasTab \/ Base(r) = Empty THEN Resume(r, k)
  ELSE Call(r, "remove_get", k)

remove_get(t) ==
  LET r == tasks[t] IN
  /\ r.pc = "remove_get"
  /\ \E fails \in StorageOutcomes(r) :
       Only(t, IF fails THEN Throw(StorageFailed(r))
               ELSE Goto([r EXCEPT !.map =
                      mapDelete(getEnabledMap(enabledDomains), Base(r))],
                    "remove_set"))

remove_set(t) ==
  LET r == tasks[t] IN
  /\ r.pc = "remove_set"
  /\ \E fails \in StorageOutcomes(r) :
       IF fails
       THEN Only(t, Throw(StorageFailed([r EXCEPT !.map = << >>])))
       ELSE /\ enabledDomains' = StoredMap(r.map)
            /\ tasks' = [tasks EXCEPT ![t] = Return([r EXCEPT !.map = << >>])]
            /\ UNCHANGED <<site, pure, page, notified, grants, now>>

(* ------------------------------------------------------------------ *)
(* ensurePermissionForBase(baseDomain, canPrompt)                     *)
(* ------------------------------------------------------------------ *)

Call_ensurePermissionForBase(r, canPrompt, k) ==
  Call([r EXCEPT !.canPrompt = canPrompt], "ensure_check", k)

\* `const has = await hasOrigins(origins); if (has) return true;
\* if (!canPrompt) return false;`
ensure_check(t) ==
  /\ tasks[t].pc = "ensure_check"
  /\ \E throws \in PermissionFaults :
       LET r == During(tasks[t], throws)
           r1 == Checked(r) IN
       Only(t, IF HasPerm(r) THEN Return([r1 EXCEPT !.flag = TRUE])
               ELSE IF ~r.canPrompt THEN Return([r1 EXCEPT !.flag = FALSE])
               ELSE Goto(r1, "ensure_request"))

\* requestOriginsFromUser: the user accepts (both patterns are granted) or
\* declines, or permissions.request throws (no user gesture)
ensure_request(t) ==
  LET r == tasks[t]
      r1 == [r EXCEPT !.requests = @ + 1] IN
  /\ r.pc = "ensure_request"
  /\ \E outcome \in {"granted", "denied", "threw"} :
       IF outcome = "granted"
       THEN /\ grants' = grants \cup {exactPattern(Base(r)), wildPattern(Base(r))}
            /\ tasks' = [tasks EXCEPT ![t] =
                 Goto([r1 EXCEPT !.outcome = outcome], "ensure_get")]
            /\ UNCHANGED <<site, pure, page, enabledDomains, notified, now>>
       ELSE Only(t, Return([r1 EXCEPT !.outcome = outcome, !.flag = FALSE]))

\* storage.local.get('notifiedMissingPermission'); delete the entry
ensure_get(t) ==
  LET r == tasks[t] IN
  /\ r.pc = "ensure_get"
  /\ \E fails \in StorageOutcomes(r) :
       Only(t, IF fails THEN Return(StorageFailed([r EXCEPT !.flag = TRUE]))
               ELSE Goto([r EXCEPT !.nmap = throttleDelete(notified, Base(r))],
                         "ensure_set"))

\* storage.local.set({notifiedMissingPermission}); return granted
ensure_set(t) ==
  LET r == tasks[t]
      r1 == [r EXCEPT !.nmap = EmptyThrottle, !.flag = TRUE] IN
  /\ r.pc = "ensure_set"
  /\ \E fails \in StorageOutcomes(r) :
       IF fails THEN Only(t, Return(StorageFailed(r1)))
       ELSE /\ notified' = r.nmap
            /\ tasks' = [tasks EXCEPT ![t] = Return(r1)]
            /\ UNCHANGED <<site, pure, page, enabledDomains, grants, now>>

(* ------------------------------------------------------------------ *)
(* shouldNotifyForBase(base) and notifyMissingPermission(base)        *)
(* ------------------------------------------------------------------ *)

\* shouldNotifyForBase returns v to notifyMissingPermission, which returns
\* at once on false and goes on to notifications.create on true
ShouldReturn(r, v, wrote, failed) ==
  LET call == [result |-> v, access |-> r.callAccess, last |-> r.last,
               at |-> now, wrote |-> wrote, failed |-> failed]
      r1 == [r EXCEPT !.shoulds = Append(@, call), !.nmap = EmptyThrottle,
                      !.callAccess = FALSE, !.last = 0,
                      !.storageFailed = @ \/ failed] IN
  IF v THEN Goto(r1, "notify_create") ELSE Return(r1)

Call_notifyMissingPermission(r, k) == Call(r, "should_check", k)

\* shouldNotifyForBase: `const hasPerm = await hasOrigins(...)`; callAccess
\* keeps whether a pattern of the domain was granted at this call
should_check(t) ==
  /\ tasks[t].pc = "should_check"
  /\ \E throws \in PermissionFaults :
       LET r == During(tasks[t], throws)
           r1 == [Checked(r) EXCEPT !.callAccess = accessGranted(grants, Base(r))] IN
       Only(t, IF HasPerm(r) THEN Goto(r1, "should_clear_get")
               ELSE Goto(r1, "should_get"))

\* permission present: read the map, drop a stale entry
should_clear_get(t) ==
  LET r == tasks[t] IN
  /\ r.pc = "should_clear_get"
  /\ \E fails \in StorageOutcomes(r) :
       Only(t, IF fails THEN ShouldReturn(r, FALSE, FALSE, TRUE)
               ELSE LET r1 == [r EXCEPT !.last = throttleGet(notified, Base(r))] IN
                    IF r1.last # 0
                    THEN Goto([r1 EXCEPT !.nmap = throttleDelete(notified, Base(r))],
                              "should_clear_set")
                    ELSE ShouldReturn(r1, FALSE, FALSE, FALSE))

should_clear_set(t) ==
  LET r == tasks[t] IN
  /\ r.pc = "should_clear_set"
  /\ \E fails \in StorageOutcomes(r) :
       IF fails THEN Only(t, ShouldReturn(r, FALSE, FALSE, TRUE))
       ELSE /\ notified' = r.nmap
            /\ tasks' = [tasks EXCEPT ![t] = ShouldReturn(r, FALSE, FALSE, FALSE)]
            /\ UNCHANGED <<site, pure, page, enabledDomains, grants, now>>

\* now - last > 6 * 60 * 60 * 1000
windowElapsed(last, clock) == clock - last > SIX_HOURS

\* permission missing: read the map and compare the last notice with now
should_get(t) ==
  LET r == tasks[t] IN
  /\ r.pc = "should_get"
  /\ \E fails \in StorageOutcomes(r) :
       Only(t, IF fails THEN ShouldReturn(r, TRUE, FALSE, TRUE)
               ELSE LET r1 == [r EXCEPT !.last = throttleGet(notified, Base(r))] IN
                    IF windowElapsed(r1.last, now)
                    THEN Goto([r1 EXCEPT !.nmap = throttleSet(notified, Base(r), now)],
                              "should_set")
                    ELSE ShouldReturn(r1, FALSE, FALSE, FALSE))

should_set(t) ==
  LET r == tasks[t] IN
  /\ r.pc = "should_set"
  /\ \E fails \in StorageOutcomes(r) :
       IF fails THEN Only(t, ShouldReturn(r, TRUE, FALSE, TRUE))
       ELSE /\ notified' = r.nmap
            /\ tasks' = [tasks EXCEPT ![t] = ShouldReturn(r, TRUE, TRUE, FALSE)]
            /\ UNCHANGED <<site, pure, page, enabledDomains, grants, now>>

\* notifications.create(`srbtranslit-missing-${base}`, ...)
notify_create(t) ==
  LET r == tasks[t] IN
  /\ r.pc = "notify_create"
  /\ Only(t, Return([r EXCEPT !.notices = Append(@, Base(r))]))

(* ------------------------------------------------------------------ *)
(* updateActionIconForTab(tabId, url)                                 *)
(* (icon, badge and title are not modelled; its try catches all)      *)
(* ------------------------------------------------------------------ *)

Call_updateActionIconForTab(r, k) ==
  Call_migrateRuleKeyIfNeeded(Push(r, k), Frame("icon_migrated", "icon_end"))

\* the body asking the user where it should only notify
IconBody_prompts(r) ==
  IF ~r.match.found THEN Return(r)
  ELSE IF ~HasPerm(r)
       THEN Call_ensurePermissionForBase(Checked(r), TRUE,
                                         Frame("icon_end", "icon_end"))
       ELSE Goto(Checked(r), "icon_clear_get")

\* the body once `match` is known
IconBody(r) ==
  IF ~r.match.found THEN Return(r)
  ELSE IF ~HasPerm(r)
       THEN Call_notifyMissingPermission(Checked(r), Frame("icon_end", "icon_end"))
       ELSE Goto(Checked(r), "icon_clear_get")

\* after `await migrateRuleKeyIfNeeded(url)`: `|| await findRuleForUrl(url)`
icon_migrated(t) ==
  /\ tasks[t].pc = "icon_migrated"
  /\ \E throws \in PermissionFaults :
       LET r == During(tasks[t], throws) IN
       Only(t, IF r.match.found THEN IconBody(r)
                  ELSE Call_findRuleForUrl(r, Frame("icon_found", "icon_end")))

icon_found(t) ==
  /\ tasks[t].pc = "icon_found"
  /\ \E throws \in PermissionFaults :
       LET r == During(tasks[t], throws) IN
       Only(t, IconBody(r))

\* permission present: clear a stale throttle entry
icon_clear_get(t) ==
  LET r == tasks[t] IN
  /\ r.pc = "icon_clear_get"
  /\ \E fails \in StorageOutcomes(r) :
       Only(t, IF fails THEN Return(StorageFailed(r))
               ELSE IF throttleGet(notified, Base(r)) # 0
                    THEN Goto([r EXCEPT !.nmap = throttleDelete(notified, Base(r))],
                              "icon_clear_set")
                    ELSE Return(r))

icon_clear_set(t) ==
  LET r == tasks[t]
      r1 == [r EXCEPT !.nmap = EmptyThrottle] IN
  /\ r.pc = "icon_clear_set"
  /\ \E fails \in StorageOutcomes(r) :
       IF fails THEN Only(t, Return(StorageFailed(r1)))
       ELSE /\ notified' = r.nmap
            /\ tasks' = [tasks EXCEPT ![t] = Return(r1)]
            /\ UNCHANGED <<site, pure, page, enabledDomains, grants, now>>

\* setTitle, or the catch: the function returns
icon_end(t) ==
  LET r == tasks[t] IN
  /\ r.pc = "icon_end"
  /\ Only(t, Return(r))

(* ------------------------------------------------------------------ *)
(* Listeners                                                          *)
(* ------------------------------------------------------------------ *)

\* a listener is invoked: the slot is free, and the shared state is recorded
Fresh(kind) ==
  [IdleTask EXCEPT !.kind = kind,
                   !.pre = [enabledDomains |-> enabledDomains,
                            notified |-> notified, grants |-> grants]]

Finish(r) == [r EXCEPT !.pc = "done", !.stack = << >>]

\* the answer without its error field
Respond_noError(r, ok, error) ==
  Finish([r EXCEPT !.response = [ok |-> IF ok THEN "true" ELSE "false",
                                 error |-> ""]])

Respond(r, ok, error) ==
  Finish([r EXCEPT !.response = [ok |-> IF ok THEN "true" ELSE "false",
                                 error |-> error]])

\* match.rule.direction || 'lat_to_cyr'
directionOrDefault(direction) == IF direction # "" THEN direction ELSE LAT_TO_CYR

(* ---- maybeAutoTransliterate(details); tabs.onUpdated ---- *)

NavEvents == {"committed", "historyStateUpdated", "completed"}

\* the onCompleted listener wraps the call in try/catch; the other two
\* listeners are the function itself, and so is the tabs.onUpdated listener
AutoCatch(r) == IF r.kind = "nav" /\ r.item = "completed" THEN "done" ELSE ""

\* a rule matched: check permission, then notify or inject
AutoBody(r) ==
  IF ~HasPerm(r)
  THEN Call_notifyMissingPermission(Checked(r), Frame("done", ""))
  ELSE Call_execute(Checked(r), directionOrDefault(r.match.direction),
                    Frame("done", ""))

\* the function without its `details.frameId !== 0` guard
maybeAutoTransliterate_anyFrame(r) ==
  Call_migrateRuleKeyIfNeeded(r, Frame("auto_migrated", AutoCatch(r)))

maybeAutoTransliterate(r) ==
  IF r.frameId # 0 THEN Finish(r)
  ELSE Call_migrateRuleKeyIfNeeded(r, Frame("auto_migrated", AutoCatch(r)))

Start_nav(t) ==
  \E event \in NavEvents, url \in Urls(site), tabId \in TabIds, frameId \in {0, 1},
     faulty \in BOOLEAN :
    /\ frameId = 0 \/ ~faulty
    /\ Only(t, maybeAutoTransliterate(
                [Fresh("nav") EXCEPT !.item = event, !.url = url,
                   !.hasTab = TRUE, !.tabId = tabId, !.frameId = frameId,
                   !.storageFaulty = faulty]))

\* after `await migrateRuleKeyIfNeeded(url)`: `|| await findRuleForUrl(url)`
auto_migrated(t) ==
  /\ tasks[t].pc = "auto_migrated"
  /\ \E throws \in PermissionFaults :
       LET r == During(tasks[t], throws) IN
       Only(t, IF r.match.found THEN AutoBody(r)
                  ELSE Call_findRuleForUrl(r, Frame("auto_found", AutoCatch(r))))

\* the step without its `if (!match) return` guard
auto_found_noGuard(t) ==
  /\ tasks[t].pc = "auto_found"
  /\ \E throws \in PermissionFaults :
       LET r == During(tasks[t], throws) IN
       Only(t, AutoBody(r))

auto_found(t) ==
  /\ tasks[t].pc = "auto_found"
  /\ \E throws \in PermissionFaults :
       LET r == During(tasks[t], throws) IN
       Only(t, IF r.match.found THEN AutoBody(r) ELSE Finish(r))

\* the second half of the tabs.onUpdated listener repeats maybeAutoTransliterate
\* on (tabId, currentUrl) when the tab's status became 'complete'
UpdatedAuto(r) ==
  IF r.status = "complete" /\ r.url # BadUrl
  THEN Call_migrateRuleKeyIfNeeded(r, Frame("auto_migrated", ""))
  ELSE Finish(r)

Start_tabUpdated(t) ==
  \E url \in Urls(site), tabId \in TabIds, status \in {"loading", "complete"},
     urlChanged \in BOOLEAN :
    LET r == [Fresh("tabUpdated") EXCEPT !.url = url, !.hasTab = TRUE,
                !.tabId = tabId, !.status = status, !.urlChanged = urlChanged] IN
    Only(t, IF status = "loading" \/ urlChanged
            THEN Call_updateActionIconForTab(r, Frame("updated_icon", ""))
            ELSE UpdatedAuto(r))

updated_icon(t) ==
  LET r == tasks[t] IN
  /\ r.pc = "updated_icon"
  /\ Only(t, UpdatedAuto(r))

(* ---- tabs.onActivated ---- *)

\* tabs.get(tabId) resolves with the tab, or rejects (the tab is gone)
Start_tabActivated(t) ==
  \E url \in Urls(site), tabId \in TabIds, gone \in BOOLEAN :
    LET r == [Fresh("tabActivated") EXCEPT !.url = url, !.hasTab = ~gone,
                                                  !.tabId = tabId] IN
    /\ ~gone \/ url = BadUrl
    /\ Only(t, IF gone THEN Finish(r)
               ELSE Call_updateActionIconForTab(r, Frame("done", "done")))

(* ---- action.onClicked (the toolbar icon) ---- *)

Start_iconClick(t) ==
  \E url \in Urls(site), tabId \in TabIds :
    LET r == [Fresh("iconClick") EXCEPT !.url = url, !.hasTab = TRUE,
                                        !.tabId = tabId] IN
    Only(t, IF Base(r) = Empty THEN Finish(r)
            ELSE Call_findRuleForUrl(r, Frame("click_found", "")))

\* after `const match = await findRuleForUrl(tab.url)`
click_found(t) ==
  /\ tasks[t].pc = "click_found"
  /\ \E throws \in PermissionFaults :
       LET r == During(tasks[t], throws) IN
       Only(t, IF r.match.found
                  THEN IF ~HasPerm(r)
                       THEN Call_ensurePermissionForBase(Checked(r), TRUE,
                                                         Frame("click_ensured_rule", ""))
                       ELSE Call_removeRuleForTab(Checked(r), Frame("click_icon", ""))
                  ELSE Call_ensurePermissionForBase(r, TRUE,
                                                    Frame("click_ensured_new", "")))

\* a rule exists and permission was missing: run on a grant, else notify
click_ensured_rule(t) ==
  /\ tasks[t].pc = "click_ensured_rule"
  /\ \E throws \in PermissionFaults :
       LET r == During(tasks[t], throws) IN
       Only(t, IF r.flag
                  THEN Call_execute(r, directionOrDefault(r.match.direction),
                                    Frame("click_icon", ""))
                  ELSE Call_notifyMissingPermission(r, Frame("click_icon", "")))

\* no rule yet: on a grant store one and run, else notify and refresh the icon
click_ensured_new(t) ==
  /\ tasks[t].pc = "click_ensured_new"
  /\ \E throws \in PermissionFaults :
       LET r == During(tasks[t], throws) IN
       Only(t, IF ~r.flag
                  THEN Call_notifyMissingPermission(r, Frame("click_notified", ""))
                  ELSE Call_upsertRuleForTab(r, LAT_TO_CYR, Frame("click_upserted", "")))

click_notified(t) ==
  LET r == tasks[t] IN
  /\ r.pc = "click_notified"
  /\ Only(t, Call_updateActionIconForTab(r, Frame("click_icon", "")))

click_upserted(t) ==
  LET r == tasks[t] IN
  /\ r.pc = "click_upserted"
  /\ Only(t, Call_execute(r, LAT_TO_CYR, Frame("click_icon", "")))

\* the closing `await updateActionIconForTab(tab.id, tab.url)`
click_icon(t) ==
  LET r == tasks[t] IN
  /\ r.pc = "click_icon"
  /\ Only(t, Call_updateActionIconForTab(r, Frame("done", "")))

(* ---- contextMenus.onClicked ---- *)

MenuItems ==
  {"transliterate-to-lat", "transliterate-to-cyr", "always-enable-domain-lat",
   "always-enable-domain-cyr", "stop-auto-domain"}

\* 'to Latin' runs Cyrillic -> Latin, 'to Cyrillic' runs Latin -> Cyrillic
menuDirection(item) ==
  IF item \in {"transliterate-to-lat", "always-enable-domain-lat"}
  THEN CYR_TO_LAT ELSE LAT_TO_CYR

Start_menu(t) ==
  \E item \in MenuItems, url \in Urls(site), tabId \in TabIds :
    LET r == [Fresh("menu") EXCEPT !.item = item, !.url = url, !.hasTab = TRUE,
                                   !.tabId = tabId] IN
    Only(t, IF item \in {"transliterate-to-lat", "transliterate-to-cyr"}
            THEN Call_execute(r, menuDirection(item), Frame("done", ""))
            ELSE IF item = "stop-auto-domain"
            THEN Call_removeRuleForTab(r, Frame("menu_changed", ""))
            ELSE IF Base(r) = Empty THEN Finish(r)
            ELSE Call_ensurePermissionForBase(r, TRUE, Frame("menu_ensured", "")))

\* 'always enable': after `await ensurePermissionForBase(base, true)`
menu_ensured(t) ==
  /\ tasks[t].pc = "menu_ensured"
  /\ \E throws \in PermissionFaults :
       LET r == During(tasks[t], throws) IN
       Only(t, IF ~r.flag
                  THEN Call_notifyMissingPermission(r, Frame("done", ""))
                  ELSE Call_upsertRuleForTab(r, menuDirection(r.item),
                                             Frame("menu_upserted", "")))

menu_upserted(t) ==
  LET r == tasks[t] IN
  /\ r.pc = "menu_upserted"
  /\ Only(t, Call_updateActionIconForTab(r, Frame("menu_icon", "")))

menu_icon(t) ==
  LET r == tasks[t] IN
  /\ r.pc = "menu_icon"
  /\ Only(t, Call_execute(r, menuDirection(r.item), Frame("done", "")))

\* 'stop auto': after `await removeRuleForTab(tab)`
menu_changed(t) ==
  LET r == tasks[t] IN
  /\ r.pc = "menu_changed"
  /\ Only(t, Call_updateActionIconForTab(r, Frame("done", "")))

(* ---- runtime.onMessage (the popup's commands) ---- *)

MessageTypes ==
  {"srb:getState", "srb:grantPermission", "srb:setRule", "srb:removeRule",
   "srb:runOnce", "srb:other"}

\* message.direction: one of the two values, or absent or anything else ("")
MessageDirections == {LAT_TO_CYR, CYR_TO_LAT, ""}

\* message.direction passed on as it came
normalizeDirection_asGiven(d) == d

\* message?.direction === 'cyr_to_lat' ? 'cyr_to_lat' : 'lat_to_cyr'
normalizeDirection(d) == IF d = CYR_TO_LAT THEN CYR_TO_LAT ELSE LAT_TO_CYR

\* getActiveTab() resolved with a tab (hasTab) or with undefined; url is
\* `tab?.url || ''`
onMessage(r) ==
  IF r.item = "srb:getState"
    THEN Call_findRuleForUrl(r, Frame("state_found", ""))
  ELSE IF r.item = "srb:grantPermission"
    THEN IF Base(r) = Empty THEN Respond(r, FALSE, "")
         ELSE Call_ensurePermissionForBase(r, TRUE, Frame("grant_ensured", ""))
  ELSE IF r.item = "srb:setRule"
    THEN IF ~r.hasTab \/ Base(r) = Empty THEN Respond(r, FALSE, "")
         ELSE Call_upsertRuleForTab(r, normalizeDirection(r.msgDirection),
                                    Frame("set_upserted", ""))
  ELSE IF r.item = "srb:removeRule"
    THEN IF ~r.hasTab THEN Respond(r, FALSE, "")
         ELSE Call_removeRuleForTab(r, Frame("remove_removed", ""))
  ELSE IF r.item = "srb:runOnce"
    THEN IF ~r.hasTab THEN Respond(r, FALSE, "")
         ELSE Call_execute(r, normalizeDirection(r.msgDirection),
                           Frame("respond_ok", ""))
  ELSE Respond(r, FALSE, "unknown_message")

Start_message(t) ==
  \E type \in MessageTypes, hasTab \in BOOLEAN, url \in Urls(site), tabId \in TabIds,
     d \in MessageDirections, run \in BOOLEAN :
    /\ hasTab \/ url = BadUrl
    /\ type \in {"srb:setRule", "srb:runOnce"} \/ d = ""
    /\ type = "srb:setRule" \/ ~run
    /\ Only(t, onMessage([Fresh("message") EXCEPT !.item = type,
                            !.url = url, !.hasTab = hasTab,
                            !.tabId = IF hasTab THEN tabId ELSE 0,
                            !.msgDirection = d, !.run = run]))

\* getState: hasPerm, then the answer (kept in match and flag)
state_found(t) ==
  /\ tasks[t].pc = "state_found"
  /\ \E throws \in PermissionFaults :
       LET r == During(tasks[t], throws) IN
       Only(t, Finish([Checked(r) EXCEPT
                            !.flag = HasPerm(r),
                            !.response = [ok |-> "state", error |-> ""]]))

\* grantPermission: `if (ok) await updateActionIconForTab(tab.id, url)`
grant_ensured(t) ==
  LET r == tasks[t] IN
  /\ r.pc = "grant_ensured"
  /\ Only(t, IF r.flag THEN Call_updateActionIconForTab(r, Frame("respond_ok", ""))
             ELSE Respond(r, FALSE, ""))

\* setRule: after `await upsertRuleForTab(tab, direction)`
set_upserted(t) ==
  LET r == tasks[t] IN
  /\ r.pc = "set_upserted"
  /\ Only(t, Call_updateActionIconForTab(r, Frame("set_icon", "")))

\* setRule: `if (message?.run)` inject when hasOrigins says so
set_icon(t) ==
  /\ tasks[t].pc = "set_icon"
  /\ \E throws \in PermissionFaults :
       LET r == During(tasks[t], throws) IN
       Only(t, IF r.run
                  THEN IF HasPerm(r)
                       THEN Call_execute(Checked(r), normalizeDirection(r.msgDirection),
                                         Frame("respond_ok", ""))
                       ELSE Respond(Checked(r), TRUE, "")
                  ELSE Respond(r, TRUE, ""))

\* removeRule: after `await removeRuleForTab(tab)`
remove_removed(t) ==
  LET r == tasks[t] IN
  /\ r.pc = "remove_removed"
  /\ Only(t, Call_updateActionIconForTab(r, Frame("respond_ok", "")))

\* return {ok: true}
respond_ok(t) ==
  LET r == tasks[t] IN
  /\ r.pc = "respond_ok"
  /\ Only(t, Respond(r, TRUE, ""))

(* ---- a component function called on its own ---- *)

ComponentFunctions == {"ensurePermissionForBase", "notifyMissingPermission"}

\* ensurePermissionForBase(base, canPrompt) or notifyMissingPermission(base)
\* (and with it shouldNotifyForBase(base)) for a registrable domain of the site
Start_call(t) ==
  \E fn \in ComponentFunctions, base \in Bases(site), canPrompt \in BOOLEAN :
    LET r == [Fresh("call") EXCEPT !.item = fn, !.url = UrlOf(base),
                                          !.canPrompt = canPrompt] IN
    /\ fn = "ensurePermissionForBase" \/ ~canPrompt
    /\ Only(t, IF fn = "ensurePermissionForBase"
               THEN Call_ensurePermissionForBase(r, canPrompt, Frame("done", ""))
               ELSE Call_notifyMissingPermission(r, Frame("done", "")))

(* ------------------------------------------------------------------ *)
(* The platform and the user                                          *)
(* ------------------------------------------------------------------ *)

\* time passes
Tick ==
  /\ PlatformFollowed(site)
  /\ now < T0 + MaxTicks * TickStep
  /\ now' = now + TickStep
  /\ UNCHANGED <<site, pure, page, enabledDomains, notified, grants, tasks>>

\* the popup obtains a pattern (it asks for both, then for each alone), or
\* the user takes one away in the browser's settings
PermissionsChanged ==
  /\ PlatformFollowed(site)
  /\ \E o \in Patterns(site) : grants' \in {grants \cup {o}, grants \ {o}} \ {grants}
  /\ UNCHANGED <<site, pure, page, enabledDomains, notified, now, tasks>>

(* ------------------------------------------------------------------ *)
(* Specification                                                      *)
(* ------------------------------------------------------------------ *)

RECURSIVE SeqsUpTo(_, _)
\* the lists over S of length at most n
SeqsUpTo(S, n) ==
  IF n = 0 THEN {<< >>}
  ELSE LET shorter == SeqsUpTo(S, n - 1) IN
       shorter \cup {Append(q, x) : q \in shorter, x \in S}

LegacyLists(s) ==
  {a \in SeqsUpTo(SiteHosts(s), MaxLegacy) :
     Len(a) > 0 /\ \A i, j \in 1..Len(a) : i # j => a[i] # a[j]}

\* start-up: storage is empty or holds a list an earlier version wrote;
\* nothing is granted yet and no listener has run
Init ==
  /\ site \in Sites
  /\ enabledDomains \in
       {StoredUndefined} \cup {StoredArray(a) : a \in LegacyLists(site)}
  /\ notified = EmptyThrottle
  /\ grants = {}
  /\ now = T0
  /\ tasks = [t \in TaskIds |-> IdleTask]
  /\ pure = NoCall
  /\ page = NoPage

Start(t) ==
  \/ Start_nav(t)
  \/ Start_tabUpdated(t)
  \/ Start_tabActivated(t)
  \/ Start_iconClick(t)
  \/ Start_menu(t)
  \/ Start_message(t)

Step(t) ==
  \/ execute(t)
  \/ findRuleForUrl_get(t)
  \/ migrate_found(t) \/ migrate_get(t) \/ migrate_set(t)
  \/ upsert_get(t) \/ upsert_set(t)
  \/ remove_get(t) \/ remove_set(t)
  \/ ensure_check(t) \/ ensure_request(t) \/ ensure_get(t) \/ ensure_set(t)
  \/ should_check(t) \/ should_clear_get(t) \/ should_clear_set(t)
  \/ should_get(t) \/ should_set(t) \/ notify_create(t)
  \/ icon_migrated(t) \/ icon_found(t) \/ icon_clear_get(t)
  \/ icon_clear_set(t) \/ icon_end(t)
  \/ auto_migrated(t) \/ auto_found(t) \/ updated_icon(t)
  \/ click_found(t) \/ click_ensured_rule(t) \/ click_ensured_new(t)
  \/ click_notified(t) \/ click_upserted(t) \/ click_icon(t)
  \/ menu_ensured(t) \/ menu_upserted(t) \/ menu_icon(t) \/ menu_changed(t)
  \/ state_found(t) \/ grant_ensured(t) \/ set_upserted(t) \/ set_icon(t)
  \/ remove_removed(t) \/ respond_ok(t)

\* the record of a finished invocation is dropped
Reap(t) ==
  /\ tasks[t].pc = "done"
  /\ Only(t, IdleTask)

Quiet == \A u \in TaskIds : tasks[u].pc = "idle"

\* one listener at a time: each invocation runs to its end before the next
Next ==
  \/ Quiet /\ Start(1)
  \/ Step(1)
  \/ Reap(1)
  \/ Quiet /\ Tick
  \/ Quiet /\ PermissionsChanged

Spec == Init /\ [][Next]_vars

\* a fresh installation: nothing is stored
Init_empty == Init /\ enabledDomains = StoredUndefined

SpecEmpty == Init_empty /\ [][Next]_vars

\* the listeners, and the component functions called on their own
NextCalls ==
  \/ Next
  \/ Quiet /\ Start_call(1)

SpecCalls == Init /\ [][NextCalls]_vars

(* ---- findRuleForUrl(url), migrateRuleKeyIfNeeded(url) called on their own ---- *)

\* the most keys of a rule set that start-up finds in storage
MaxKeys == 2

KeyLists ==
  {a \in SeqsUpTo(SiteHosts("store"), MaxKeys) :
     \A i, j \in 1..Len(a) : i # j => a[i] # a[j]}

\* the mappings with the keys of a list, in its order
RuleMaps(a) ==
  {m \in [1..Len(a) -> [key : elements(a), direction : Directions]] :
     \A i \in 1..Len(a) : m[i].key = a[i]}

StoredValues ==
  {StoredUndefined}
    \cup {StoredArray(a) : a \in KeyLists \ {<< >>}}
    \cup {StoredMap(m) : m \in UNION {RuleMaps(a) : a \in KeyLists}}

Init_store ==
  /\ site = "store"
  /\ enabledDomains \in StoredValues
  /\ notified = EmptyThrottle
  /\ grants = {}
  /\ now = T0
  /\ tasks = [t \in TaskIds |-> IdleTask]
  /\ pure = NoCall
  /\ page = NoPage

StoreFunctions == {"findRuleForUrl", "migrateRuleKeyIfNeeded"}

Start_store(t) ==
  \E fn \in StoreFunctions, url \in Urls(site) :
    LET r == [Fresh("call") EXCEPT !.item = fn, !.url = url, !.hasTab = TRUE] IN
    Only(t, IF fn = "findRuleForUrl"
            THEN Call_findRuleForUrl(r, Frame("done", ""))
            ELSE Call_migrateRuleKeyIfNeeded(r, Frame("done", "")))

Next_store ==
  \/ Quiet /\ Start_store(1)
  \/ findRuleForUrl_get(1)
  \/ migrate_found(1) \/ migrate_get(1) \/ migrate_set(1)
  \/ Reap(1)

SpecStore == Init_store /\ [][Next_store]_vars

(* ---- registrableDomain(hostname) called on its own ---- *)

\* the most labels of a hostname
MaxLabels == 4

\* labels of one, two and three characters, some of them known second levels
Labels == { <<"a">>, <<"c", "o">>, s_rs, <<"c", "o", "m">>, s_gov }

\* the hostnames of at most MaxLabels labels, and the empty one
Hostnames == {join(ls, DOT) : ls \in SeqsUpTo(Labels, MaxLabels)}

\* the browser at rest
AtRest ==
  /\ site = "p.rs"
  /\ enabledDomains = StoredUndefined
  /\ notified = EmptyThrottle
  /\ grants = {}
  /\ now = T0
  /\ tasks = [t \in TaskIds |-> IdleTask]
  /\ page = NoPage

Init_registrableDomain ==
  /\ AtRest
  /\ pure \in {[NoCall EXCEPT !.fn = "registrableDomain", !.arg = h] :
                 h \in Hostnames}

Apply_registrableDomain ==
  /\ pure.fn = "registrableDomain" /\ ~pure.returned
  /\ pure' = [pure EXCEPT !.result = registrableDomain(pure.arg),
                          !.returned = TRUE]
  /\ UNCHANGED <<site, enabledDomains, notified, grants, now, tasks, page>>

Spec_registrableDomain ==
  Init_registrableDomain /\ [][Apply_registrableDomain]_vars

(* ------------------------------------------------------------------ *)
(* Two rule-set mutations in flight at once                           *)
(* ------------------------------------------------------------------ *)

\* storage is empty, or holds a rule for one or both registrable domains
Init_race ==
  /\ site = "race"
  /\ enabledDomains \in
       {StoredUndefined}
         \cup {StoredMap(m) : m \in RuleMaps(<<h_p>>) \cup RuleMaps(<<h_p, h_np>>)}
  /\ notified = EmptyThrottle
  /\ grants = {}
  /\ now = T0
  /\ tasks = [t \in TaskIds |-> IdleTask]
  /\ pure = NoCall
  /\ page = NoPage

RaceFunctions == {"upsertRuleForTab", "removeRuleForTab"}

\* upsertRuleForTab(tab, direction) or removeRuleForTab(tab) for a tab on a
\* registrable domain
Start_race(t) ==
  \E fn \in RaceFunctions, base \in Bases(site), direction \in Directions :
    LET r == [Fresh("call") EXCEPT !.item = fn, !.url = UrlOf(base),
                                          !.hasTab = TRUE] IN
    /\ tasks[t].pc = "idle"
    /\ fn = "upsertRuleForTab" \/ direction = LAT_TO_CYR
    /\ Only(t, IF fn = "upsertRuleForTab"
               THEN Call_upsertRuleForTab(r, direction, Frame("done", ""))
               ELSE Call_removeRuleForTab(r, Frame("done", "")))

\* every await is a point where the other invocation may run
Step_race(t) ==
  \/ Start_race(t)
  \/ upsert_get(t) \/ upsert_set(t)
  \/ remove_get(t) \/ remove_set(t)

Next_race ==
  \/ Step_race(1)
  \/ Step_race(2)

SpecRace == Init_race /\ [][Next_race]_vars

(* ------------------------------------------------------------------ *)
(* Permission and throttle functions on their own, two calls in a row *)
(* ------------------------------------------------------------------ *)

(* ---- a key migration in flight while the rule is removed ---- *)

\* one rule is stored under a key that is not the registrable domain of
\* its hosts (an older version stored hostnames), as a list or as a mapping
Init_flight ==
  /\ site = "flight"
  /\ enabledDomains \in
       {StoredArray(<<h_n_p>>)} \cup {StoredMap(m) : m \in RuleMaps(<<h_n_p>>)}
  /\ notified = EmptyThrottle
  /\ grants = {}
  /\ now = T0
  /\ tasks = [t \in TaskIds |-> IdleTask]
  /\ pure = NoCall
  /\ page = NoPage

\* migrateRuleKeyIfNeeded(url), the first call of a navigation or tab event
Start_migrate(t) ==
  \E host \in SiteHosts(site) :
    /\ tasks[t].pc = "idle"
    /\ Only(t, Call_migrateRuleKeyIfNeeded(
                 [Fresh("call") EXCEPT !.item = "migrateRuleKeyIfNeeded",
                                       !.url = UrlOf(host)],
                 Frame("done", "")))

\* every stored key that matches a host of the site is the registrable
\* domain of that host
Aligned ==
  \A h \in SiteHosts(site) :
    LET match == findInMap(getEnabledMap(enabledDomains), h) IN
    match.found => match.key = registrableDomain(h)

\* removeRuleForTab(tab), the first call of the remove operations, for a tab
\* on the site; the user removes the rule once its key is aligned
Start_remove(t) ==
  \E host \in SiteHosts(site) :
    /\ tasks[t].pc = "idle"
    /\ Aligned
    /\ Only(t, Call_removeRuleForTab(
                 [Fresh("call") EXCEPT !.item = "removeRuleForTab",
                                       !.url = UrlOf(host), !.hasTab = TRUE],
                 Frame("done", "")))

\* every await is a point where the other invocation may run
Step_flight(t) ==
  \/ findRuleForUrl_get(t) \/ migrate_found(t)
  \/ migrate_get(t) \/ migrate_set(t)
  \/ remove_get(t) \/ remove_set(t)

\* a returned call of removeRuleForTab
RemoveDone(r) == Done(r) /\ r.kind = "call" /\ r.item = "removeRuleForTab"

\* invocation 1 is an event whose migration may be in flight for as long as
\* it takes; invocation 2 is one event after another and then the remove,
\* whose record is kept
Next_flight ==
  \/ Start_migrate(1)
  \/ Step_flight(1)
  \/ Reap(1)
  \/ Start_migrate(2)
  \/ Start_remove(2)
  \/ Step_flight(2)
  \/ ~RemoveDone(tasks[2]) /\ Reap(2)

SpecFlight == Init_flight /\ [][Next_flight]_vars

\* the times a notice was recorded before the behaviour starts: more than
\* one window ago, and within the window
Stamps == {T0 - SIX_HOURS - 1, T0 - 1}

\* the throttle maps over the registrable domains of the hosts
ThrottleMaps ==
  UNION {[B -> Stamps] : B \in SUBSET Bases("throttle")}

Init_throttle ==
  /\ site = "throttle"
  /\ enabledDomains = StoredUndefined
  /\ notified \in ThrottleMaps
  /\ grants \in {{}} \cup {{wildPattern(b)} : b \in Bases("throttle")}
  /\ now = T0
  /\ tasks = [t \in TaskIds |-> IdleTask]
  /\ pure = NoCall
  /\ page = NoPage

\* ensurePermissionForBase(base, canPrompt) or notifyMissingPermission(base),
\* storage working or not
Start_throttle(t) ==
  \E fn \in ComponentFunctions, base \in Bases(site), canPrompt \in BOOLEAN,
     faulty \in BOOLEAN :
    LET r == [Fresh("call") EXCEPT !.item = fn, !.url = UrlOf(base),
                                          !.canPrompt = canPrompt,
                                          !.storageFaulty = faulty] IN
    /\ fn = "ensurePermissionForBase" \/ ~canPrompt
    /\ Only(t, IF fn = "ensurePermissionForBase"
               THEN Call_ensurePermissionForBase(r, canPrompt, Frame("done", ""))
               ELSE Call_notifyMissingPermission(r, Frame("done", "")))

Step_throttle(t) ==
  \/ ensure_check(t) \/ ensure_request(t) \/ ensure_get(t) \/ ensure_set(t)
  \/ should_check(t) \/ should_clear_get(t) \/ should_clear_set(t)
  \/ should_get(t) \/ should_set(t) \/ notify_create(t)

\* a returned call of ensurePermissionForBase(base, true) that asked the
\* user and was granted
GrantedByPrompt(r) ==
  /\ Done(r) /\ r.kind = "call" /\ r.item = "ensurePermissionForBase"
  /\ r.requests = 1 /\ r.outcome = "granted"

\* the next notifyMissingPermission(base) after the call r returned
Start_next(t, r) ==
  \E faulty \in BOOLEAN :
    Only(t, Call_notifyMissingPermission(
              [Fresh("call") EXCEPT !.item = "notifyMissingPermission",
                                    !.url = r.url, !.storageFaulty = faulty],
              Frame("done", "")))

\* the user takes every grant away in the browser's settings
Revoked ==
  /\ grants # {}
  /\ grants' = {}
  /\ UNCHANGED <<site, pure, page, enabledDomains, notified, now, tasks>>

\* one call at a time; after a grant by prompt the record of that call is
\* kept while the next notice check for its domain runs
Next_throttle ==
  \/ Quiet /\ Start_throttle(1)
  \/ Step_throttle(1)
  \/ /\ GrantedByPrompt(tasks[1]) /\ tasks[2].pc = "idle"
     /\ Start_next(2, tasks[1])
  \/ Step_throttle(2)
  \/ ~Running(tasks[2]) /\ Reap(1)
  \/ tasks[1].pc = "idle" /\ Reap(2)
  \/ (\A u \in TaskIds : ~Running(tasks[u])) /\ Revoked

SpecThrottle == Init_throttle /\ [][Next_throttle]_vars

(* ------------------------------------------------------------------ *)
(* The transliteration engines (content scripts)                      *)
(* ------------------------------------------------------------------ *)

\* srbtranslit.js: the Cyrillic-to-Latin table.  A character is one UTF-16
\* code unit: a printable ASCII one is itself, any other is named U+XXXX
replace ==
  {
    [key |-> <<"U+0410">>, value |-> <<"A">>],
    [key |-> <<"U+0411">>, value |-> <<"B">>],
    [key |-> <<"U+0412">>, value |-> <<"V">>],
    [key |-> <<"U+0413">>, value |-> <<"G">>],
    [key |-> <<"U+0414">>, value |-> <<"D">>],
    [key |-> <<"U+0402">>, value |-> <<"U+0110">>],
    [key |-> <<"U+0415">>, value |-> <<"E">>],
    [key |-> <<"U+0416">>, value |-> <<"U+017D">>],
    [key |-> <<"U+0417">>, value |-> <<"Z">>],
    [key |-> <<"U+0418">>, value |-> <<"I">>],
    [key |-> <<"U+0408">>, value |-> <<"J">>],
    [key |-> <<"U+041A">>, value |-> <<"K">>],
    [key |-> <<"U+041B">>, value |-> <<"L">>],
    [key |-> <<"U+0409">>, value |-> <<"L", "J">>],
    [key |-> <<"U+041C">>, value |-> <<"M">>],
    [key |-> <<"U+041D">>, value |-> <<"N">>],
    [key |-> <<"U+040A">>, value |-> <<"N", "J">>],
    [key |-> <<"U+041E">>, value |-> <<"O">>],
    [key |-> <<"U+041F">>, value |-> <<"P">>],
    [key |-> <<"U+0420">>, value |-> <<"R">>],
    [key |-> <<"U+0421">>, value |-> <<"S">>],
    [key |-> <<"U+0428">>, value |-> <<"U+0160">>],
    [key |-> <<"U+0422">>, value |-> <<"T">>],
    [key |-> <<"U+040B">>, value |-> <<"U+0106">>],
    [key |-> <<"U+0423">>, value |-> <<"U">>],
    [key |-> <<"U+0424">>, value |-> <<"F">>],
    [key |-> <<"U+0425">>, value |-> <<"H">>],
    [key |-> <<"U+0426">>, value |-> <<"C">>],
    [key |-> <<"U+0427">>, value |-> <<"U+010C">>],
    [key |-> <<"U+040F">>, value |-> <<"D", "U+017D">>],
    [key |-> <<"U+0430">>, value |-> <<"a">>],
    [key |-> <<"U+0431">>, value |-> <<"b">>],
    [key |-> <<"U+0432">>, value |-> <<"v">>],
    [key |-> <<"U+0433">>, value |-> <<"g">>],
    [key |-> <<"U+0434">>, value |-> <<"d">>],
    [key |-> <<"U+0452">>, value |-> <<"U+0111">>],
    [key |-> <<"U+0435">>, value |-> <<"e">>],
    [key |-> <<"U+0436">>, value |-> <<"U+017E">>],
    [key |-> <<"U+0437">>, value |-> <<"z">>],
    [key |-> <<"U+0438">>, value |-> <<"i">>],
    [key |-> <<"U+0458">>, value |-> <<"j">>],
    [key |-> <<"U+043A">>, value |-> <<"k">>],
    [key |-> <<"U+043B">>, value |-> <<"l">>],
    [key |-> <<"U+0459">>, value |-> <<"l", "j">>],
    [key |-> <<"U+043C">>, value |-> <<"m">>],
    [key |-> <<"U+043D">>, value |-> <<"n">>],
    [key |-> <<"U+045A">>, value |-> <<"n", "j">>],
    [key |-> <<"U+043E">>, value |-> <<"o">>],
    [key |-> <<"U+043F">>, value |-> <<"p">>],
    [key |-> <<"U+0440">>, value |-> <<"r">>],
    [key |-> <<"U+0441">>, value |-> <<"s">>],
    [key |-> <<"U+0448">>, value |-> <<"U+0161">>],
    [key |-> <<"U+0442">>, value |-> <<"t">>],
    [key |-> <<"U+045B">>, value |-> <<"U+0107">>],
    [key |-> <<"U+0443">>, value |-> <<"u">>],
    [key |-> <<"U+0444">>, value |-> <<"f">>],
    [key |-> <<"U+0445">>, value |-> <<"h">>],
    [key |-> <<"U+0446">>, value |-> <<"c">>],
    [key |-> <<"U+0447">>, value |-> <<"U+010D">>],
    [key |-> <<"U+045F">>, value |-> <<"d", "U+017E">>],
    [key |-> <<"U+040A", "U+0430">>, value |-> <<"N", "j", "a">>],
    [key |-> <<"U+040A", "U+0435">>, value |-> <<"N", "j", "e">>],
    [key |-> <<"U+040A", "U+0438">>, value |-> <<"N", "j", "i">>],
    [key |-> <<"U+040A", "U+043E">>, value |-> <<"N", "j", "o">>],
    [key |-> <<"U+040A", "U+0443">>, value |-> <<"N", "j", "u">>],
    [key |-> <<"U+0409", "U+0430">>, value |-> <<"L", "j", "a">>],
    [key |-> <<"U+0409", "U+0435">>, value |-> <<"L", "j", "e">>],
    [key |-> <<"U+0409", "U+0438">>, value |-> <<"L", "j", "i">>],
    [key |-> <<"U+0409", "U+043E">>, value |-> <<"L", "j", "o">>],
    [key |-> <<"U+0409", "U+0443">>, value |-> <<"L", "j", "u">>],
    [key |-> <<"U+040F", "U+0430">>, value |-> <<"D", "U+017E", "a">>],
    [key |-> <<"U+040F", "U+0435">>, value |-> <<"D", "U+017E", "e">>],
    [key |-> <<"U+040F", "U+0438">>, value |-> <<"D", "U+017E", "i">>],
    [key |-> <<"U+040F", "U+043E">>, value |-> <<"D", "U+017E", "o">>],
    [key |-> <<"U+040F", "U+0443">>, value |-> <<"D", "U+017E", "u">>],
    [key |-> <<".", "U+0441", "U+0440", "U+0431">>, value |-> <<".", "U+0441", "U+0440", "U+0431">>],
    [key |-> <<"U+0438", "U+0455", ".", "U+0441", "U+0440", "U+0431">>, value |-> <<"U+0438", "U+0455", ".", "U+0441", "U+0440", "U+0431">>],
    [key |-> <<"U+045A", "U+045A", "U+045A", ".", "U+0438", "U+0437", ".", "U+0441", "U+0440", "U+0431">>, value |-> <<"U+045A", "U+045A", "U+045A", ".", "U+0438", "U+0437", ".", "U+0441", "U+0440", "U+0431">>],
    [key |-> <<".", "U+0421", "U+0420", "U+0411">>, value |-> <<".", "U+0421", "U+0420", "U+0411">>],
    [key |-> <<"U+0418", "U+0417", ".", "U+0421", "U+0420", "U+0411">>, value |-> <<"U+0418", "U+0417", ".", "U+0421", "U+0420", "U+0411">>],
    [key |-> <<"U+040A", "U+040A", "U+040A", ".", "U+0418", "U+0417", ".", "U+0421", "U+0420", "U+0411">>, value |-> <<"U+040A", "U+040A", "U+040A", ".", "U+0418", "U+0417", ".", "U+0421", "U+0420", "U+0411">>]
  }

\* srbtranslitToCyr.js: the Latin-to-Cyrillic table
replaceLatToCyr ==
  {
    [key |-> <<"N", "j", "a">>, value |-> <<"U+040A", "U+0430">>],
    [key |-> <<"N", "j", "e">>, value |-> <<"U+040A", "U+0435">>],
    [key |-> <<"N", "j", "i">>, value |-> <<"U+040A", "U+0438">>],
    [key |-> <<"N", "j", "o">>, value |-> <<"U+040A", "U+043E">>],
    [key |-> <<"N", "j", "u">>, value |-> <<"U+040A", "U+0443">>],
    [key |-> <<"L", "j", "a">>, value |-> <<"U+0409", "U+0430">>],
    [key |-> <<"L", "j", "e">>, value |-> <<"U+0409", "U+0435">>],
    [key |-> <<"L", "j", "i">>, value |-> <<"U+0409", "U+0438">>],
    [key |-> <<"L", "j", "o">>, value |-> <<"U+0409", "U+043E">>],
    [key |-> <<"L", "j", "u">>, value |-> <<"U+0409", "U+0443">>],
    [key |-> <<"D", "U+017E", "a">>, value |-> <<"U+040F", "U+0430">>],
    [key |-> <<"D", "U+017E", "e">>, value |-> <<"U+040F", "U+0435">>],
    [key |-> <<"D", "U+017E", "i">>, value |-> <<"U+040F", "U+0438">>],
    [key |-> <<"D", "U+017E", "o">>, value |-> <<"U+040F", "U+043E">>],
    [key |-> <<"D", "U+017E", "u">>, value |-> <<"U+040F", "U+0443">>],
    [key |-> <<"L", "J">>, value |-> <<"U+0409">>],
    [key |-> <<"N", "J">>, value |-> <<"U+040A">>],
    [key |-> <<"D", "U+017D">>, value |-> <<"U+040F">>],
    [key |-> <<"n", "j">>, value |-> <<"U+045A">>],
    [key |-> <<"l", "j">>, value |-> <<"U+0459">>],
    [key |-> <<"d", "U+017E">>, value |-> <<"U+045F">>],
    [key |-> <<"A">>, value |-> <<"U+0410">>],
    [key |-> <<"B">>, value |-> <<"U+0411">>],
    [key |-> <<"V">>, value |-> <<"U+0412">>],
    [key |-> <<"G">>, value |-> <<"U+0413">>],
    [key |-> <<"D">>, value |-> <<"U+0414">>],
    [key |-> <<"U+0110">>, value |-> <<"U+0402">>],
    [key |-> <<"E">>, value |-> <<"U+0415">>],
    [key |-> <<"U+017D">>, value |-> <<"U+0416">>],
    [key |-> <<"Z">>, value |-> <<"U+0417">>],
    [key |-> <<"I">>, value |-> <<"U+0418">>],
    [key |-> <<"J">>, value |-> <<"U+0408">>],
    [key |-> <<"K">>, value |-> <<"U+041A">>],
    [key |-> <<"L">>, value |-> <<"U+041B">>],
    [key |-> <<"M">>, value |-> <<"U+041C">>],
    [key |-> <<"N">>, value |-> <<"U+041D">>],
    [key |-> <<"O">>, value |-> <<"U+041E">>],
    [key |-> <<"P">>, value |-> <<"U+041F">>],
    [key |-> <<"R">>, value |-> <<"U+0420">>],
    [key |-> <<"S">>, value |-> <<"U+0421">>],
    [key |-> <<"U+0160">>, value |-> <<"U+0428">>],
    [key |-> <<"T">>, value |-> <<"U+0422">>],
    [key |-> <<"U+0106">>, value |-> <<"U+040B">>],
    [key |-> <<"U">>, value |-> <<"U+0423">>],
    [key |-> <<"F">>, value |-> <<"U+0424">>],
    [key |-> <<"H">>, value |-> <<"U+0425">>],
    [key |-> <<"C">>, value |-> <<"U+0426">>],
    [key |-> <<"U+010C">>, value |-> <<"U+0427">>],
    [key |-> <<"a">>, value |-> <<"U+0430">>],
    [key |-> <<"b">>, value |-> <<"U+0431">>],
    [key |-> <<"v">>, value |-> <<"U+0432">>],
    [key |-> <<"g">>, value |-> <<"U+0433">>],
    [key |-> <<"d">>, value |-> <<"U+0434">>],
    [key |-> <<"U+0111">>, value |-> <<"U+0452">>],
    [key |-> <<"e">>, value |-> <<"U+0435">>],
    [key |-> <<"U+017E">>, value |-> <<"U+0436">>],
    [key |-> <<"z">>, value |-> <<"U+0437">>],
    [key |-> <<"i">>, value |-> <<"U+0438">>],
    [key |-> <<"j">>, value |-> <<"U+0458">>],
    [key |-> <<"k">>, value |-> <<"U+043A">>],
    [key |-> <<"l">>, value |-> <<"U+043B">>],
    [key |-> <<"m">>, value |-> <<"U+043C">>],
    [key |-> <<"n">>, value |-> <<"U+043D">>],
    [key |-> <<"o">>, value |-> <<"U+043E">>],
    [key |-> <<"p">>, value |-> <<"U+043F">>],
    [key |-> <<"r">>, value |-> <<"U+0440">>],
    [key |-> <<"s">>, value |-> <<"U+0441">>],
    [key |-> <<"U+0161">>, value |-> <<"U+0448">>],
    [key |-> <<"t">>, value |-> <<"U+0442">>],
    [key |-> <<"U+0107">>, value |-> <<"U+045B">>],
    [key |-> <<"u">>, value |-> <<"U+0443">>],
    [key |-> <<"f">>, value |-> <<"U+0444">>],
    [key |-> <<"h">>, value |-> <<"U+0445">>],
    [key |-> <<"c">>, value |-> <<"U+0446">>],
    [key |-> <<"U+010D">>, value |-> <<"U+0447">>]
  }

\* an engine that also maps a value of one character back to its key
replaceChar_bothWays(table, char) ==
  IF \E e \in table : e.key = <<char>>
  THEN (CHOOSE e \in table : e.key = <<char>>).value
  ELSE IF \E e \in table : e.value = <<char>> /\ Len(e.key) = 1
  THEN (CHOOSE e \in table : e.value = <<char>> /\ Len(e.key) = 1).key
  ELSE <<char>>

\* an engine that drops what its table does not list
replaceChar_dropUnknown(table, char) ==
  IF \E e \in table : e.key = <<char>>
  THEN (CHOOSE e \in table : e.key = <<char>>).value
  ELSE Empty

\* table[char] || char
replaceChar(table, char) ==
  IF \E e \in table : e.key = <<char>>
  THEN (CHOOSE e \in table : e.key = <<char>>).value
  ELSE <<char>>

RECURSIVE transliterateWith(_, _)
\* word.split('').map(char => table[char] || char).join('')
transliterateWith(table, word) ==
  IF Len(word) = 0 THEN Empty
  ELSE replaceChar(table, Head(word)) \o transliterateWith(table, Tail(word))

transliterate(word) == transliterateWith(replace, word)

transliterateToCyr(word) == transliterateWith(replaceLatToCyr, word)

\* the keys of a table
tableKeys(table) == {e.key : e \in table}

\* each engine is applied to each key of its table
Init_engines ==
  /\ AtRest
  /\ pure \in
       {[NoCall EXCEPT !.fn = "transliterate", !.arg = k] :
          k \in tableKeys(replace)}
       \cup {[NoCall EXCEPT !.fn = "transliterateToCyr", !.arg = k] :
               k \in tableKeys(replaceLatToCyr)}

Apply_transliterate ==
  /\ pure.fn = "transliterate" /\ ~pure.returned
  /\ pure' = [pure EXCEPT !.result = transliterate(pure.arg), !.returned = TRUE]
  /\ UNCHANGED <<site, enabledDomains, notified, grants, now, tasks, page>>

Apply_transliterateToCyr ==
  /\ pure.fn = "transliterateToCyr" /\ ~pure.returned
  /\ pure' = [pure EXCEPT !.result = transliterateToCyr(pure.arg),
                          !.returned = TRUE]
  /\ UNCHANGED <<site, enabledDomains, notified, grants, now, tasks, page>>

Next_engines ==
  \/ Apply_transliterate
  \/ Apply_transliterateToCyr

Spec_engines == Init_engines /\ [][Next_engines]_vars

\* the longest word given to an engine
MaxLen == 3

\* characters of every kind: Cyrillic letters (one with a two-letter Latin
\* value), Latin letters with and without a Cyrillic counterpart, a digit,
\* a space and a full stop
Alphabet == {"U+0411", "U+0409", "n", "q", "1", " ", "."}

\* the words of at most MaxLen characters, the empty one included
Words == SeqsUpTo(Alphabet, MaxLen)

\* each engine is applied to each word
Init_words ==
  /\ AtRest
  /\ pure \in {[NoCall EXCEPT !.fn = f, !.arg = w] :
                 f \in {"transliterate", "transliterateToCyr"}, w \in Words}

Spec_words == Init_words /\ [][Next_engines]_vars

(* ------------------------------------------------------------------ *)
(* The document pass of the content scripts                           *)
(* ------------------------------------------------------------------ *)

\* the most elements of a document
MaxElements == 2

\* the most injections into one document
MaxRuns == 2

\* text node values: a Cyrillic and a Latin letter, and a blank
NodeValues == {<<"U+0411", "n">>, <<" ">>}

\* the text nodes among the child nodes of an element: none, one, or two
\* different ones
TextLists ==
  {<< >>} \cup {<<v>> : v \in NodeValues}
          \cup {<<v, w>> : <<v, w>> \in {p \in NodeValues \X NodeValues :
                                            p[1] # p[2]}}

\* the elements querySelectorAll('*') can return: tag, contenteditable
\* attribute, whether it has element children, and the values of the text
\* nodes among its child nodes.  Only a div has element children here, and
\* only a div is marked editable
Elements ==
  {[tag |-> g, editable |-> ed, children |-> ch, texts |-> ts] :
     g \in {"div", "script", "style", "noscript", "textarea"},
     ed \in BOOLEAN, ch \in BOOLEAN,
     ts \in TextLists}

Pages ==
  {es \in SeqsUpTo(
       {e \in Elements :
          /\ e.children => e.tag = "div"
          /\ e.editable => e.tag = "div"}, MaxElements) : Len(es) > 0}

RECURSIVE textContent(_)
\* Node.textContent of an element without element children
textContent(texts) ==
  IF Len(texts) = 0 THEN Empty ELSE Head(texts) \o textContent(Tail(texts))

\* String.prototype.trim, as far as whether it leaves anything
trimsToEmpty(value) == \A i \in 1..Len(value) : value[i] = " "

\* getElementsWithNoChildren: the positions the filter keeps.  nodeValue
\* of a child node is a string or null, never undefined
getElementsWithNoChildren(candidates) ==
  {x \in 1..Len(candidates) :
     LET elem == candidates[x] IN
     \/ ~elem.children
     \/ elem.children \/ Len(elem.texts) > 0}

\* iterator: text.nodeValue = transliterate(text.nodeValue)
iterator(table, nodeValue) ==
  IF Len(nodeValue) > 0 /\ ~trimsToEmpty(nodeValue)
  THEN transliterateWith(table, nodeValue)
  ELSE nodeValue

\* the body of the loop of srbTranslit for one element
translitElement(table, elem) ==
  IF ~elem.children
  THEN IF textContent(elem.texts) # Empty
       THEN [elem EXCEPT
               !.texts = <<transliterateWith(table, textContent(elem.texts))>>]
       ELSE elem
  ELSE [elem EXCEPT
          !.texts = [i \in 1..Len(elem.texts) |->
                       iterator(table, elem.texts[i])]]

\* srbTranslit(): one pass over the document, start to end
srbTranslit(table, allElements) ==
  [x \in 1..Len(allElements) |->
     IF x \in getElementsWithNoChildren(allElements)
     THEN translitElement(table, allElements[x])
     ELSE allElements[x]]

Init_document ==
  /\ site = "p.rs"
  /\ enabledDomains = StoredUndefined
  /\ notified = EmptyThrottle
  /\ grants = {}
  /\ now = T0
  /\ tasks = [t \in TaskIds |-> IdleTask]
  /\ pure = NoCall
  /\ page \in {[NoPage EXCEPT !.elements = es] : es \in Pages}

\* srbtranslit.js is injected and runs
Run_srbtranslit ==
  /\ Len(page.elements) > 0 /\ Len(page.runs) < MaxRuns
  /\ page' = [elements |-> srbTranslit(replace, page.elements),
              runs |-> Append(page.runs, "srbtranslit.js"),
              before |-> page.elements]
  /\ UNCHANGED <<site, enabledDomains, notified, grants, now, tasks, pure>>

\* srbtranslitToCyr.js is injected and runs
Run_srbtranslitToCyr ==
  /\ Len(page.elements) > 0 /\ Len(page.runs) < MaxRuns
  /\ page' = [elements |-> srbTranslit(replaceLatToCyr, page.elements),
              runs |-> Append(page.runs, "srbtranslitToCyr.js"),
              before |-> page.elements]
  /\ UNCHANGED <<site, enabledDomains, notified, grants, now, tasks, pure>>

Next_document ==
  \/ Run_srbtranslit
  \/ Run_srbtranslitToCyr

Spec_document == Init_document /\ [][Next_document]_vars

\* the engines on the keys of their tables and on the words, and the
\* document pass, once and again
Init_repeat == Init_engines \/ Init_words \/ Init_document

Next_repeat == Next_engines \/ Next_document

Spec_repeat == Init_repeat /\ [][Next_repeat]_vars

(* ------------------------------------------------------------------ *)
(* Properties                                                         *)
(* ------------------------------------------------------------------ *)

\* what findRuleForUrl resolves for a host in a stored rule set
ruleFor(stored, host) ==
  IF host = Empty THEN NoMatch ELSE findInMap(getEnabledMap(stored), host)

\* a finished srb:getState command: its hasPermission answer (flag) is the
\* value hasOrigins returned for the two patterns of the tab's domain
GetState(r) == Done(r) /\ r.kind = "message" /\ r.item = "srb:getState"

\* a finished qualifying event of the auto-apply controller
AutoEvent(r) ==
  /\ Done(r)
  /\ \/ r.kind = "nav" /\ r.frameId = 0
     \/ r.kind = "tabUpdated" /\ r.status = "complete"

\* C1: hasOrigins over the two origin patterns of a registrable domain
\* returns true if and only if at least one of the two patterns is in the
\* grant set (permissions.contains not throwing)
C1_HasAccessIffGranted ==
  \A t \in TaskIds :
    LET r == tasks[t] IN
    GetState(r) /\ Base(r) # Empty /\ ~r.permThrew
      => (r.flag <=> accessGranted(grants, Base(r)))

\* C2: for a qualifying event whose URL resolves to a rule, when neither
\* pattern of the domain is granted nothing is injected and notifyMissing is
\* called; a script is injected only when access is present
C2_NoInjectionWithoutAccess ==
  \A t \in TaskIds :
    LET r == tasks[t] IN
    AutoEvent(r) /\ ~r.storageFailed /\ r.match.found
      => /\ ~accessGranted(grants, Base(r))
              => r.injected = << >> /\ r.shoulds # << >>
         /\ r.injected # << >> => accessGranted(grants, Base(r))

SubFrame(r) == Done(r) /\ r.kind = "nav" /\ r.frameId # 0

\* C3: a navigation event of a sub-frame (frameId other than 0) causes no
\* injection, no notification, no permission check, and leaves the stored
\* rule set and throttle map as they were (no key migration)
C3_SubFrameIgnored ==
  \A t \in TaskIds :
    LET r == tasks[t] IN
    SubFrame(r)
      => /\ r.injected = << >> /\ ~r.injectFailed
         /\ r.notices = << >> /\ r.shoulds = << >>
         /\ ~r.checked /\ r.requests = 0
         /\ enabledDomains = r.pre.enabledDomains
         /\ notified = r.pre.notified
         /\ ~r.rejected

\* a sub-frame event on a host whose rule sits under a key that a top-frame
\* event would migrate
C3_Witness ==
  \E t \in TaskIds :
    LET r == tasks[t]
        m == ruleFor(enabledDomains, Host(r)) IN
    SubFrame(r) /\ m.found /\ m.key # Base(r)

\* a finished qualifying event whose URL resolved to no rule, storage working
NoRuleEvent(r) ==
  /\ AutoEvent(r)
  /\ ~r.storageFaulty
  /\ ~ruleFor(r.pre.enabledDomains, Host(r)).found

\* C4: when a qualifying event's URL resolves to no rule (no key matches the
\* host, or the URL does not parse) there is no permission check, no
\* notification, no injection, both stored maps are unchanged and the
\* handler does not reject
C4_NoRuleStops ==
  \A t \in TaskIds :
    LET r == tasks[t] IN
    NoRuleEvent(r)
      => /\ ~r.checked /\ r.requests = 0
         /\ r.notices = << >> /\ r.shoulds = << >>
         /\ r.injected = << >> /\ ~r.injectFailed
         /\ enabledDomains = r.pre.enabledDomains
         /\ notified = r.pre.notified
         /\ ~r.rejected

\* an event with an unparseable URL while rules are stored
C4_Witness ==
  \E t \in TaskIds :
    LET r == tasks[t] IN
    NoRuleEvent(r) /\ r.url = BadUrl /\ getEnabledMap(enabledDomains) # << >>

\* C5: a call of shouldNotifyForBase for a domain with no granted pattern
\* returns true and records the time of the call when the domain has no
\* throttle entry or its entry is more than 6 hours old, and returns false
\* and records nothing when the entry is at most 6 hours old
C5_ThrottleWindow ==
  \A t \in TaskIds :
    \A i \in 1..Len(tasks[t].shoulds) :
      LET call == tasks[t].shoulds[i] IN
      ~call.access /\ ~call.failed
        => /\ call.result = windowElapsed(call.last, call.at)
           /\ call.wrote = call.result

\* C6: with a rule stored and no permission granted, a navigation event
\* injects nothing, and creates a missing-permission notice exactly when
\* none was created for the domain in the last 6 hours (so the events of
\* one window create one notice between them)
C6_SuppressedAndNoticedOnce ==
  \A t \in TaskIds :
    LET r == tasks[t] IN
    /\ Done(r) /\ r.kind = "nav" /\ r.frameId = 0 /\ ~r.storageFaulty
    /\ ruleFor(r.pre.enabledDomains, Host(r)).found
    /\ ~accessGranted(grants, Base(r))
    => /\ r.injected = << >> /\ ~r.injectFailed
       /\ Len(r.notices) =
            IF windowElapsed(throttleGet(r.pre.notified, Base(r)), now)
            THEN 1 ELSE 0

\* a finished call of ensurePermissionForBase(base, canPrompt) on its own
EnsureCall(r) ==
  Done(r) /\ r.kind = "call" /\ r.item = "ensurePermissionForBase"

\* C7: ensurePermissionForBase(base, canPrompt) returns true without a grant
\* request when access is granted; returns false with no request and no
\* write when access is not granted and canPrompt is false; issues exactly
\* one request and returns its outcome when access is not granted and
\* canPrompt is true (permissions.contains not throwing)
C7_EnsureAccess ==
  \A t \in TaskIds :
    LET r == tasks[t]
        has == accessGranted(r.pre.grants, Base(r)) IN
    EnsureCall(r) /\ ~r.permThrew
      => /\ has => r.flag /\ r.requests = 0
         /\ ~has /\ ~r.canPrompt
              => /\ ~r.flag /\ r.requests = 0
                 /\ enabledDomains = r.pre.enabledDomains
                 /\ notified = r.pre.notified
                 /\ grants = r.pre.grants
         /\ ~has /\ r.canPrompt
              => r.requests = 1 /\ (r.flag <=> r.outcome = "granted")

\* handlers of user-initiated actions, and of events
UserAction(r) ==
  \/ r.kind \in {"iconClick", "menu"}
  \/ r.kind = "message" /\ r.item = "srb:grantPermission"

EventDriven(r) == r.kind \in {"nav", "tabUpdated", "tabActivated"}

SetRule(r) == Done(r) /\ r.kind = "message" /\ r.item = "srb:setRule"

\* C9: setRule for an active tab with a registrable domain stores a rule
\* for the domain and answers {ok: true}, granted or not; it injects only
\* if run is set and a pattern of the domain is granted; with no active tab
\* or no registrable domain it answers {ok: false} and stores nothing
C9_SetRule ==
  \A t \in TaskIds :
    LET r == tasks[t] IN
    SetRule(r)
      => IF r.hasTab /\ Base(r) # Empty
         THEN /\ r.response.ok = "true"
              /\ mapHas(getEnabledMap(enabledDomains), Base(r))
              /\ r.injected # << >> \/ r.injectFailed
                   => r.run /\ accessGranted(grants, Base(r))
         ELSE /\ r.response.ok = "false"
              /\ enabledDomains = r.pre.enabledDomains
              /\ r.injected = << >> /\ ~r.injectFailed

\* C10: after setRule with direction d answered {ok: true}, the rule that
\* findRuleForUrl resolves for the tab's host has direction d, whatever the
\* rule set held before
C10_SetRuleDirection ==
  \A t \in TaskIds :
    LET r == tasks[t]
        m == ruleFor(enabledDomains, Host(r)) IN
    SetRule(r) /\ r.response.ok = "true" /\ r.msgDirection \in Directions
      => m.found /\ m.direction = r.msgDirection

\* a finished operation that removes the rule of the tab: a removeRule
\* command, the 'stop auto' menu item, or a toolbar click on a tab with a
\* matching rule and access
Removal(r) ==
  /\ Done(r) /\ r.hasTab /\ ~r.storageFailed /\ ~r.permThrew
  /\ ruleFor(r.pre.enabledDomains, Host(r)).found
  /\ \/ r.kind = "message" /\ r.item = "srb:removeRule"
     \/ r.kind = "menu" /\ r.item = "stop-auto-domain"
     \/ r.kind = "iconClick" /\ accessGranted(r.pre.grants, Base(r))

\* C11: after a removeRule command, a 'stop auto' menu action, or a toolbar
\* click on a tab with a matching rule and access, no key of the stored rule
\* set matches the tab's host, whatever the rule set held before
C11_RemovedRuleMatchesNoMore ==
  \A t \in TaskIds :
    LET r == tasks[t] IN
    Removal(r) => ~ruleFor(enabledDomains, Host(r)).found

\* a finished srb:runOnce command
RunOnce(r) == Done(r) /\ r.kind = "message" /\ r.item = "srb:runOnce"

\* C12: runOnce makes no permission check and no grant request, leaves the
\* stored rule set and throttle map unchanged, and with an active tab
\* injects the engine of the requested direction (srbtranslit.js for
\* 'cyr_to_lat', srbtranslitToCyr.js otherwise) and answers {ok: true};
\* without an active tab it injects nothing and answers {ok: false}
C12_RunOnceBypassesStore ==
  \A t \in TaskIds :
    LET r == tasks[t]
        file == IF r.msgDirection = CYR_TO_LAT
                THEN "srbtranslit.js" ELSE "srbtranslitToCyr.js" IN
    RunOnce(r)
      => /\ ~r.checked /\ r.requests = 0
         /\ r.notices = << >> /\ r.shoulds = << >>
         /\ enabledDomains = r.pre.enabledDomains
         /\ notified = r.pre.notified
         /\ IF r.hasTab
            THEN /\ r.response = [ok |-> "true", error |-> ""]
                 /\ IF r.injectFailed THEN r.injected = << >>
                    ELSE r.injected = <<[tabId |-> r.tabId, file |-> file]>>
            ELSE /\ r.response = [ok |-> "false", error |-> ""]
                 /\ r.injected = << >> /\ ~r.injectFailed

\* runOnce injected the Cyrillic-to-Latin engine on a tab whose domain has a
\* stored rule and no granted pattern
C12_Witness ==
  \E t \in TaskIds :
    LET r == tasks[t] IN
    /\ RunOnce(r) /\ r.msgDirection = CYR_TO_LAT /\ r.injected # << >>
    /\ ruleFor(enabledDomains, Host(r)).found
    /\ ~accessGranted(grants, Base(r))

\* a finished message of a type other than the five commands
UnknownMessage(r) == Done(r) /\ r.kind = "message" /\ r.item = "srb:other"

\* C13: a message of an unknown type is answered
\* {ok: false, error: 'unknown_message'}, changes neither stored map and
\* causes no injection, notice, permission check or grant request
C13_UnknownMessage ==
  \A t \in TaskIds :
    LET r == tasks[t] IN
    UnknownMessage(r)
      => /\ r.response = [ok |-> "false", error |-> "unknown_message"]
         /\ enabledDomains = r.pre.enabledDomains
         /\ notified = r.pre.notified
         /\ r.injected = << >> /\ ~r.injectFailed
         /\ r.notices = << >> /\ r.shoulds = << >>
         /\ ~r.checked /\ r.requests = 0

\* an unknown message while the active tab's host has a stored rule
C13_Witness ==
  \E t \in TaskIds :
    LET r == tasks[t] IN
    UnknownMessage(r) /\ r.hasTab /\ ruleFor(enabledDomains, Host(r)).found

\* what C14 says of reading one stored value
ReadsAsClaimed(stored) ==
  LET m == getEnabledMap(stored) IN
  /\ stored.form = "array"
       => /\ mapKeys(m) = elements(stored.arr)
          /\ Len(m) = Cardinality(elements(stored.arr))
          /\ \A i \in 1..Len(m) : m[i].direction = LAT_TO_CYR
  /\ stored.form = "map" => m = stored.map
  /\ stored.form = "undefined" => m = << >>
  /\ getEnabledMap(StoredMap(m)) = m

\* a finished operation that read the rule set (findRuleForUrl on a
\* parseable URL): a getState command or a top-frame navigation event
HasRead(r) ==
  /\ Done(r) /\ Host(r) # Empty /\ ~r.storageFaulty
  /\ \/ GetState(r)
     \/ r.kind = "nav" /\ r.frameId = 0

\* C15: once an operation has read the rule set, the stored enabledDomains
\* value is no longer a legacy list
C15_LegacyUpgradedOnRead ==
  \A t \in TaskIds : HasRead(tasks[t]) => enabledDomains.form # "array"

\* the last n of the dot-separated labels of a hostname, joined by dots
lastLabels(hostname, n) ==
  LET ls == split(hostname, DOT) IN
  join(SubSeq(ls, Len(ls) - n + 1, Len(ls)), DOT)

\* co, com, net, org, gov, edu, ac
SecondLevels ==
  { <<"c", "o">>, <<"c", "o", "m">>, <<"n", "e", "t">>, <<"o", "r", "g">>,
    <<"g", "o", "v">>, <<"e", "d", "u">>, <<"a", "c">> }

\* C16: registrableDomain returns the hostname itself when it has at most 2
\* labels; else the last 3 labels when the last label has exactly 2
\* characters and the one before it is one of co, com, net, org, gov, edu,
\* ac; else the last 2 labels; and null (empty) for an empty hostname
C16_RegistrableDomain ==
  pure.fn = "registrableDomain" /\ pure.returned
    => LET h == pure.arg
           ls == split(h, DOT)
           n == Len(ls) IN
       pure.result =
         IF h = Empty THEN Empty
         ELSE IF n <= 2 THEN h
         ELSE IF Len(ls[n]) = 2 /\ ls[n - 1] \in SecondLevels
              THEN lastLabels(h, 3)
              ELSE lastLabels(h, 2)

\* 'a.co.gov.rs' gave 'co.gov.rs'
C16_Witness ==
  /\ pure.fn = "registrableDomain" /\ pure.returned
  /\ pure.arg = <<"a", ".", "c", "o", ".", "g", "o", "v", ".", "r", "s">>
  /\ pure.result = <<"c", "o", ".", "g", "o", "v", ".", "r", "s">>

\* host is key with a dot and something (or nothing) before it
dotSuffix(host, key) ==
  \E i \in 1..Len(host) :
    /\ host[i] = DOT
    /\ SubSeq(host, i + 1, Len(host)) = key

\* a finished call of findRuleForUrl on its own
FindCall(r) == Done(r) /\ r.kind = "call" /\ r.item = "findRuleForUrl"

\* C14: reading a stored legacy list yields the mapping with exactly the
\* listed domains as keys, each 'lat_to_cyr'; reading a stored mapping
\* yields it unchanged, so reading what a read returned returns the same;
\* reading an absent value yields the empty mapping.  Stated of the value
\* in storage, of every list over the hosts (repeats included), and of what
\* findRuleForUrl then finds
C14_ReadRuleSet ==
  /\ ReadsAsClaimed(enabledDomains)
  /\ \A a \in SeqsUpTo(SiteHosts(site), MaxKeys) :
       ReadsAsClaimed(StoredArray(a))
  /\ \A t \in TaskIds :
       LET r == tasks[t] IN
       FindCall(r) => r.match = ruleFor(r.pre.enabledDomains, Host(r))

\* findRuleForUrl read a stored legacy list of two hosts and found the
\* rule of the second
C14_Witness ==
  \E t \in TaskIds :
    LET r == tasks[t] IN
    /\ FindCall(r) /\ enabledDomains.form = "array"
    /\ Len(enabledDomains.arr) = 2
    /\ r.match.found /\ r.match.key = enabledDomains.arr[2]
    /\ r.match.direction = LAT_TO_CYR

\* C17: findRuleForUrl returns an entry if and only if some stored key
\* equals the host or the host ends with a dot followed by the key, the
\* entry returned is such a key with its stored rule, and the stored rule
\* set is left as it was
C17_FindRule ==
  \A t \in TaskIds :
    LET r == tasks[t]
        map == getEnabledMap(r.pre.enabledDomains)
        matching == {i \in 1..Len(map) :
                       Host(r) # Empty
                         /\ (Host(r) = map[i].key \/ dotSuffix(Host(r), map[i].key))} IN
    FindCall(r)
      => /\ r.match.found <=> matching # {}
         /\ r.match.found
              => \E i \in matching : /\ r.match.key = map[i].key
                                     /\ r.match.direction = map[i].direction
         /\ enabledDomains = r.pre.enabledDomains

\* the only key is 'p.rs' and the host 'np.rs' has no entry
C17_Witness ==
  \E t \in TaskIds :
    LET r == tasks[t] IN
    /\ FindCall(r) /\ Host(r) = h_np
    /\ mapKeys(getEnabledMap(enabledDomains)) = {h_p}
    /\ ~r.match.found

\* a finished call of migrateRuleKeyIfNeeded on its own
MigrateCall(r) ==
  Done(r) /\ r.kind = "call" /\ r.item = "migrateRuleKeyIfNeeded"

\* the call found the rule of the host under a key other than the
\* registrable domain
Migrated(r) ==
  LET old == ruleFor(r.pre.enabledDomains, Host(r)) IN
  MigrateCall(r) /\ old.found /\ old.key # Base(r)

\* the keys, other than the registrable domain, that matched the host
staleKeys(r) ==
  {k \in mapKeys(getEnabledMap(r.pre.enabledDomains)) :
     k # Base(r) /\ (Host(r) = k \/ dotSuffix(Host(r), k))}

\* a call now would change nothing: no key matches, or the first is aligned
SecondCallNoOp(r) ==
  LET again == ruleFor(enabledDomains, Host(r)) IN
  ~again.found \/ again.key = Base(r)

\* the effect of one call, as C18 states it
MigratesAsClaimed(r) ==
  LET old == ruleFor(r.pre.enabledDomains, Host(r))
      before == getEnabledMap(r.pre.enabledDomains)
      after == getEnabledMap(enabledDomains) IN
  IF old.found /\ old.key # Base(r)
  THEN /\ ~mapHas(after, old.key)
       /\ mapHas(after, Base(r))
       /\ mapGet(after, Base(r)) = old.direction
       /\ \A k \in mapKeys(before) \ {old.key, Base(r)} :
            mapHas(after, k) /\ mapGet(after, k) = mapGet(before, k)
       /\ r.match = [found |-> TRUE, key |-> Base(r), direction |-> old.direction]
  ELSE /\ enabledDomains = r.pre.enabledDomains
       /\ r.match = old

SetRuleStored(r) ==
  r.kind = "message" /\ r.item = "srb:setRule" /\ r.pc = "set_upserted"

engineTable(fn) == IF fn = "transliterate" THEN replace ELSE replaceLatToCyr

\* C20: in both engines, transliterating a string that is a key of more
\* than one character of the engine's table yields the table's value for
\* that key
C20_MultiCharacterKeys ==
  /\ pure.fn \in {"transliterate", "transliterateToCyr"}
  /\ pure.returned
  /\ Len(pure.arg) > 1
  => \E e \in engineTable(pure.fn) :
       e.key = pure.arg /\ pure.result = e.value


\* the characters that occur in some key of a table
keyChars(table) == UNION {elements(e.key) : e \in table}

\* what the engine that was called computes
engine(fn, word) ==
  IF fn = "transliterate" THEN transliterate(word) ELSE transliterateToCyr(word)

\* q begins s
isPrefix(q, s) == Len(q) <= Len(s) /\ SubSeq(s, 1, Len(q)) = q

\* a finished call of an engine
EngineCall ==
  pure.fn \in {"transliterate", "transliterateToCyr"} /\ pure.returned

\* C21: for both engines, a string none of whose characters occurs in a key
\* of the engine's table is returned unchanged; and in every string, each
\* character that occurs in no key of the table stands unchanged in the
\* output right after the transliteration of what precedes it
C21_PassThrough ==
  EngineCall =>
    LET absent(i) == pure.arg[i] \notin keyChars(engineTable(pure.fn)) IN
    /\ (\A i \in 1..Len(pure.arg) : absent(i)) => pure.result = pure.arg
    /\ \A i \in 1..Len(pure.arg) :
         absent(i) =>
           LET before == engine(pure.fn, SubSeq(pure.arg, 1, i - 1)) IN
           /\ isPrefix(Append(before, pure.arg[i]), pure.result)
           /\ Len(pure.result) - Len(before)
                = Len(engine(pure.fn, SubSeq(pure.arg, i, Len(pure.arg))))

\* the Cyrillic-to-Latin engine was given a digit between two Cyrillic
\* letters, the first of which becomes two Latin letters
C21_Witness ==
  /\ EngineCall /\ pure.fn = "transliterate"
  /\ pure.arg = <<"U+0409", "1", "U+0411">>
  /\ pure.result = <<"L", "J", "1", "B">>


\* a pass has run over the document
Passed == Len(page.runs) > 0

\* the elements whose text the pass is to leave alone
ineligible(elem) ==
  \/ elem.tag \in {"script", "style", "noscript", "textarea"}
  \/ elem.editable

\* C22: a document pass of either engine leaves the text of every text
\* node under a script, style, noscript or textarea element, or under an
\* element marked content-editable, as it was
C22_SkipsIneligible ==
  Passed =>
    \A x \in 1..Len(page.elements) :
      ineligible(page.before[x]) =>
        page.elements[x].texts = page.before[x].texts

\* a finished top-frame navigation event on a subdomain of a stored key
\* that is the registrable domain of the host, access present, storage and
\* permissions.contains working
NavToSubdomain(r) ==
  /\ Done(r) /\ r.kind = "nav" /\ r.frameId = 0
  /\ ~r.storageFaulty /\ ~r.permThrew
  /\ Host(r) # Empty /\ Host(r) # Base(r)
  /\ mapHas(getEnabledMap(r.pre.enabledDomains), Base(r))
  /\ accessGranted(r.pre.grants, Base(r))

\* the engine the claim names for a direction
engineFor(direction) ==
  IF direction = CYR_TO_LAT THEN "srbtranslit.js"
  ELSE IF direction = LAT_TO_CYR THEN "srbtranslitToCyr.js"
  ELSE "none"

\* C23: a top-frame navigation event on a subdomain of a stored key that
\* is its registrable domain, with access present, injects exactly once
\* into the event's tab, with the engine of the stored rule's direction,
\* and leaves the rule set unchanged
C23_AutoApply ==
  \A t \in TaskIds :
    LET r == tasks[t]
        rule == mapGet(getEnabledMap(r.pre.enabledDomains), Base(r)) IN
    NavToSubdomain(r)
      => /\ \/ r.injected = <<[tabId |-> r.tabId, file |-> engineFor(rule)]>>
            \/ r.injected = << >> /\ r.injectFailed
         /\ enabledDomains = r.pre.enabledDomains

\* a handler whose injection the platform rejected has finished
InjectionFailed(r) == Done(r) /\ r.injectFailed

\* the step of task t in which scripting.executeScript rejects
RejectedStep(t) ==
  /\ tasks[t].pc = "execute" /\ tasks[t].hasTab
  /\ tasks'[t].injectFailed /\ tasks'[t].injected = tasks[t].injected

\* the task after the step in which scripting.executeScript resolved
afterInjection(r) ==
  [r EXCEPT !.injected = Append(@, [tabId |-> r.tabId, file |-> scriptFor(r.dir)])]

\* C24: a rejected injection is swallowed.  The step in which it is rejected
\* changes neither stored map, emits no notice, and leaves the handler
\* where a successful injection leaves it, the failure mark apart, so that
\* what it persists afterwards is what it persists after a success; and a
\* handler whose injection was rejected finishes without rejecting
C24_InjectionFailureSwallowed ==
  /\ [](\A t \in TaskIds :
          LET r == tasks[t] IN
          InjectionFailed(r) => ~r.rejected)
  /\ [][\A t \in TaskIds :
          RejectedStep(t) =>
            /\ enabledDomains' = enabledDomains
            /\ notified' = notified
            /\ [tasks'[t] EXCEPT !.injectFailed = tasks[t].injectFailed]
                 = [afterInjection(Return(tasks[t])) EXCEPT
                      !.injected = tasks[t].injected,
                      !.permissionsThrow = FALSE]]_vars

\* an auto-apply event whose injection was rejected
C24_Witness ==
  \E t \in TaskIds :
    LET r == tasks[t] IN
    /\ InjectionFailed(r) /\ r.match.found
    /\ r.kind = "nav" /\ r.item = "committed"

\* a finished call of notifyMissingPermission(base) on its own, and with it
\* of shouldNotifyForBase(base), storage and permissions.contains working
ShouldCall(r) ==
  /\ Done(r) /\ r.kind = "call" /\ r.item = "notifyMissingPermission"
  /\ Len(r.shoulds) = 1
  /\ ~r.permThrew /\ ~r.storageFaulty

\* no call has started since the call of task t returned
Latest(t) == t = 1 => tasks[2].pc = "idle"

\* C25: shouldNotifyForBase for a domain that has access returns false,
\* records no timestamp, and leaves the throttle map without an entry for
\* the domain: an entry it had is deleted, the entries of other domains
\* are as they were
C25_AccessClearsThrottle ==
  \A t \in TaskIds :
    LET r == tasks[t] IN
    ShouldCall(r) /\ r.shoulds[1].access /\ Latest(t)
      => /\ ~r.shoulds[1].result /\ ~r.shoulds[1].wrote
         /\ r.notices = << >>
         /\ DOMAIN notified = DOMAIN r.pre.notified \ {Base(r)}
         /\ \A b \in DOMAIN notified : notified[b] = r.pre.notified[b]

\* the domain had an entry, which is gone, and another domain has kept its
C25_Witness ==
  \E t \in TaskIds :
    LET r == tasks[t] IN
    /\ ShouldCall(r) /\ r.shoulds[1].access /\ Latest(t)
    /\ Base(r) \in DOMAIN r.pre.notified
    /\ DOMAIN notified # {}

\* C26: when ensurePermissionForBase(base, true) obtains a grant through
\* a prompt, the throttle map has no entry for the domain on its return;
\* and the next shouldNotifyForBase for the domain, the grant having been
\* revoked, returns true however recently a notice was recorded
C26_GrantClearsThrottle ==
  LET e == tasks[1]
      n == tasks[2] IN
  GrantedByPrompt(e) /\ ~e.storageFaulty
    => /\ n.pc = "idle" => Base(e) \notin DOMAIN notified
       /\ ShouldCall(n) /\ ~n.shoulds[1].access => n.shoulds[1].result

\* the positions of the keys of a rule map that a host equals or dot-extends
matchingKeys(map, host) ==
  {i \in 1..Len(map) :
     host # Empty /\ (host = map[i].key \/ dotSuffix(host, map[i].key))}

\* C27: when more than one stored key matches a host, findRuleForUrl
\* returns the matching key that comes first in the rule set's insertion
\* order, whether or not it is the longest
C27_FirstMatchWins ==
  \A t \in TaskIds :
    LET r == tasks[t]
        map == getEnabledMap(r.pre.enabledDomains)
        matching == matchingKeys(map, Host(r)) IN
    FindCall(r) /\ Cardinality(matching) > 1
      => \E i \in matching :
           /\ \A j \in matching : i <= j
           /\ r.match = [found |-> TRUE, key |-> map[i].key,
                         direction |-> map[i].direction]

\* keys 'p.rs' then 'n.p.rs', host 'n.p.rs': the shorter key is returned
C27_Witness ==
  \E t \in TaskIds :
    LET r == tasks[t]
        map == getEnabledMap(r.pre.enabledDomains) IN
    /\ FindCall(r) /\ Host(r) = h_n_p
    /\ Len(map) = 2 /\ map[1].key = h_p /\ map[2].key = h_n_p
    /\ map[1].direction # map[2].direction
    /\ r.match.key = h_p /\ r.match.direction = map[1].direction

\* C28: starting from an empty rule set, the persisted rule set never holds
\* two distinct keys of which one ends with '.' followed by the other
C28_NoOverlappingKeys ==
  LET map == getEnabledMap(enabledDomains) IN
  \A i, j \in 1..Len(map) :
    i # j => ~endsWith(map[j].key, <<DOT>> \o map[i].key)

\* a finished call of upsertRuleForTab or removeRuleForTab on its own
MutationCall(r) ==
  Done(r) /\ r.kind = "call" /\ r.item \in RaceFunctions

\* the step in which task t writes the rule set
WriteStep(t) ==
  /\ tasks[t].pc \in {"upsert_set", "remove_set"}
  /\ tasks'[t].pc = "done"

\* C29: rule-set mutations read the whole map and later write the whole
\* map, without a lock: every write stores exactly the map its writer
\* holds (what it read, with its own change), whatever was written since
\* it read, so that the last write wins; and an interleaving of two
\* mutations of different domains loses the earlier writer's update
C29_LastWriteWins ==
  [][\A t \in TaskIds :
       WriteStep(t) => enabledDomains' = StoredMap(tasks[t].map)]_vars

\* storage was empty when both calls started; the first upserted 'p.rs',
\* the second 'np.rs'; both have written and only 'np.rs' is stored
C29_Witness ==
  /\ MutationCall(tasks[1]) /\ MutationCall(tasks[2])
  /\ tasks[1].item = "upsertRuleForTab" /\ Base(tasks[1]) = h_p
  /\ tasks[2].item = "upsertRuleForTab" /\ Base(tasks[2]) = h_np
  /\ tasks[1].pre.enabledDomains = StoredUndefined
  /\ tasks[2].pre.enabledDomains = StoredUndefined
  /\ mapKeys(getEnabledMap(enabledDomains)) = {h_np}

\* the same content script has run twice in a row
RanAgain ==
  /\ Len(page.runs) >= 2
  /\ page.runs[Len(page.runs)] = page.runs[Len(page.runs) - 1]

\* C30: for both engines and every input, transliterating the output again
\* gives the output; and a document into which the same engine is injected
\* again has after the second pass the text it had after the first
C30_SafeToRepeat ==
  /\ EngineCall => engine(pure.fn, pure.result) = pure.result
  /\ RanAgain => page.elements = page.before

\* srbtranslit.js ran twice over a document whose first element held 'Бn'
\* in one text node
C30_Witness ==
  /\ RanAgain /\ page.runs[1] = "srbtranslit.js"
  /\ page.elements[1].texts = <<<<"B", "n">>>>


(* ------------------------------------------------------------------ *)
(* Storage failure during the notice check                            *)
(* ------------------------------------------------------------------ *)

\* a returned notifyMissingPermission(base) whose shouldNotifyForBase met a
\* rejecting storage.local call
FailedShould(r) ==
  /\ Done(r) /\ r.kind = "call" /\ r.item = "notifyMissingPermission"
  /\ Len(r.shoulds) = 1 /\ r.shoulds[1].failed

\* C31: when a read or a write of the throttle map rejects during
\* shouldNotifyForBase for a domain without access, the call returns true
\* (the notice is allowed), never false and never a rejection
C31_StorageFailureAllowsNotice ==
  \A t \in TaskIds :
    LET r == tasks[t] IN
    FailedShould(r) /\ ~r.shoulds[1].access
      => r.shoulds[1].result /\ ~r.rejected


(* ------------------------------------------------------------------ *)
(* Removal and migrations in flight                                   *)
(* ------------------------------------------------------------------ *)

\* the hosts of the site that a key of the persisted rule set matches
matchedHosts ==
  {h \in SiteHosts(site) : findInMap(getEnabledMap(enabledDomains), h).found}

\* C32: once a remove for a domain has completed and no upsert for the
\* domain follows, the persisted rule set holds no rule matching a host of
\* the domain, also when an event's key migration for the domain had read
\* the rule set before the remove ran
C32_RemovedStaysRemoved ==
  RemoveDone(tasks[2])
    => \A h \in matchedHosts : registrableDomain(h) # Base(tasks[2])


(* ------------------------------------------------------------------ *)
(* Keys of the rule set from a fresh installation                     *)
(* ------------------------------------------------------------------ *)

\* C33: starting from an empty rule set, whatever commands and navigation
\* events follow, every key k of the persisted rule set is its own
\* registrable domain: registrableDomain(k) = k
C33_KeysAreRegistrableDomains ==
  \A k \in mapKeys(getEnabledMap(enabledDomains)) : registrableDomain(k) = k

\* a navigation to a.gov.rs found the rule under 'gov.rs' and its migration
\* has left the rule under 'a.gov.rs'
C33_Witness ==
  \E t \in TaskIds :
    LET r == tasks[t] IN
    /\ Done(r) /\ r.kind = "nav" /\ Host(r) = h_a_gov
    /\ mapKeys(getEnabledMap(r.pre.enabledDomains)) = {h_gov}
    /\ mapKeys(getEnabledMap(enabledDomains)) = {h_a_gov}


(* ------------------------------------------------------------------ *)
(* What a key migration leaves alone                                  *)
(* ------------------------------------------------------------------ *)

\* C34: a key migration changes only the key of the migrated rule: every
\* entry stored under another key than the old one is the same after
\* migrateRuleKeyIfNeeded as before, a rule already stored under the
\* registrable domain of the host among them, and the rule set has no
\* more rules than before
C34_MigrationFrame ==
  \A t \in TaskIds :
    LET r == tasks[t]
        old == ruleFor(r.pre.enabledDomains, Host(r))
        before == getEnabledMap(r.pre.enabledDomains)
        after == getEnabledMap(enabledDomains) IN
    Migrated(r)
      => /\ \A k \in mapKeys(before) \ {old.key} :
              mapHas(after, k) /\ mapGet(after, k) = mapGet(before, k)
         /\ Len(after) <= Len(before)

====
